---------------------------- MODULE Spec2Model ----------------------------
(***************************************************************************)
(* Verification model of the streaming chat gateway                        *)
(* (feishuChatBotWithStremingDifyAPI): session cache, card pool, streaming *)
(* adapter, message orchestrator and token cache.                          *)
(*                                                                         *)
(* One module, one specification per component:                            *)
(*   SpecSession  services/sessionCache.go                                 *)
(*   SpecPool     services/cardpool/cardpool.go                            *)
(*   SpecStream   services/ai/dify/dify.go                                 *)
(*   SpecTurn     handlers (MessageAction.Execute and the card renderer)   *)
(*   SpecToken    handlers/msg.go getTenantAccessToken                     *)
(*   SpecWatch    handlers (the loop of Execute with its timers)           *)
(*   SpecBuild    services/cardpool/cardpool.go (construction)             *)
(*   SpecChan     handlers (the token channels of a turn)                  *)
(*   SpecShare    services/ai/dify/dify.go (concurrent invocations)        *)
(*   SpecRender   handlers/event_msg_action.go (updates from goroutines)   *)
(*   SpecReader   services/sessionCache.go (GetMessages and message maps)  *)
(*   SpecUpd      handlers (MessageHandler.updateTextCard and its retries) *)
(*   SpecDedup    handlers/event_common_action.go (processed-message check)*)
(* Strings whose length or concatenation matters are sequences of          *)
(* characters; time is a logical clock.                                    *)
(***************************************************************************)
EXTENDS Integers, Sequences, FiniteSets, TLC

VARIABLES
  \* ---- session cache (SessionService) -------------------------------
  cache,             \* go-cache map: session id -> SessionMeta (+ expiration)
  totalSessions,     \* int32 counter
  totalMemoryUsed,   \* int64 counter
  userSessionCount,  \* map user id -> count (0 = key absent)
  userMessageIndex,  \* map <<user id, message id>> -> pointer to a SessionMeta
  sessionMu,         \* s.mu: "free", or "stuck" once a holder re-locks it
  now,               \* wall clock (ticks)
  stuckCall,         \* the call that blocked on s.mu while holding it, if any
  timesAccepted      \* history: successful SetMessages calls carrying TrackedPair

VARIABLES
  \* ---- message orchestrator (MessageAction) and card renderer ----------
  processed,         \* msgCache.processed: the message ids tagged on arrival
  activeSessions,    \* m.activeSessions: the session ids being processed
  sequenceCounter,   \* the process-wide int64 sequence counter
  turn               \* per Execute call: position, arguments and what it did

VARIABLES
  \* ---- card pool (CardPool) --------------------------------------------
  cards,             \* p.cards: the queued card ids, front first
  poolMu,            \* p.mu: "free", or "stuck" once a holder re-locks it
  refills,           \* the asynchronous refill goroutines not yet finished
  filler,            \* position of fillPool: "idle", "read" or "create"
  isRunning,         \* p.isRunning
  nextCardId,        \* cards created so far (card ids are 1, 2, ...)
  rebuilds,          \* midnight rebuilds so far
  lastGet            \* what the last GetCard call returned

VARIABLES
  \* ---- streaming adapter (DifyProvider) --------------------------------
  sentContent,       \* d.sentContent: the contents seen
  conversations,     \* d.conversations[userID].conversationID, 0 when absent
  buffer,            \* d.buffer: content not yet sent on the channel
  everSent,          \* d.lastSendTime is not the zero time
  responseStream,    \* the caller's channel (buffered)
  call               \* the StreamChat invocation: position and history

VARIABLES
  \* ---- token cache (getTenantAccessToken) -------------------------------
  tokenCache,        \* the cached token: 0 is "", n > 0 the n-th token fetched
  tokenExpiry,       \* tokenExpiry (ticks of 5 minutes)
  tokenCacheMu,      \* the writer holding tokenCacheMu, or "none"
  tokenNow,          \* wall clock (ticks of 5 minutes)
  caller             \* per caller of getTenantAccessToken: position, history

VARIABLES
  \* ---- the loop of Execute and its adapter goroutine, with time --------
  watch              \* one Execute call: timers, channel, what it did

VARIABLES
  \* ---- construction of the card pool ----------------------------------
  build              \* NewCardPool: position of fillPool, cards, attempts

VARIABLES
  \* ---- concurrent StreamChat invocations on one DifyProvider -----------
  providerSent,      \* d.sentContent as the invocations share it
  invocation         \* per invocation: position, fragments received, passed

VARIABLES
  \* ---- card updates sent from goroutines (event_msg_action.go) ---------
  render             \* one Execute call: answer, update goroutines, PUTs

VARIABLES
  \* ---- the messages GetMessages hands out and the stored ones ----------
  reader             \* one stored history, its copy at a caller, the maps shared

VARIABLES
  \* ---- one card update with its retries (MessageHandler) ---------------
  upd                \* Execute's loop and the updateTextCard call in it

VARIABLES
  \* ---- concurrent deliveries at the processed-message check -----------
  msgProcessed,      \* messageCacheImpl.processed: the message ids tagged
  delivery           \* per delivery: position in the check, message id

VARIABLES
  \* ---- the token channels of a turn ------------------------------------
  pipe,              \* sendOnProcess: adapter, relay, Execute, two channels
  hm                 \* handleMessage: its channel, its sender goroutine

sessVars == <<cache, totalSessions, totalMemoryUsed, userSessionCount,
              userMessageIndex, sessionMu, now, stuckCall, timesAccepted>>

-----------------------------------------------------------------------------
(* Bounds of the model and scaled program constants.                       *)

\* Time runs from 0 to MaxTime ticks.
MaxTime == 2
\* DefaultExpiration (12 h) in ticks.
DefaultExpiration == 1
\* MaxSessionsPerUser is 10 in the source; scaled so that the cap is reached.
MaxSessionsPerUser == 1
\* MaxTotalSessions is 10000 in the source; scaled.
MaxTotalSessions == 2
\* MaxMessageLength is 4096 in the source; scaled.
MaxMessageLength == 3
\* MaxMessagesPerSession is 100 in the source; scaled.
MaxMessagesPerSession == 2
\* MemoryLimit is 4 GiB in the source; scaled to a few messages' JSON bytes.
MemoryLimit == 150

\* A turn receives at most MaxTokens tokens from the stream.
MaxTokens == 2

\* PoolSize is 20 in the source; scaled.
PoolSize == 2
\* The card service creates at most MaxCards cards.
MaxCards == 7
\* Midnight passes at most MaxRebuilds times.
MaxRebuilds == 2

\* The response channel holds 10 strings in the source; scaled.
ChanCap == 2
\* StreamChat is invoked at most MaxCalls times.
MaxCalls == 2
\* An invocation receives at most MaxEvents events.
MaxEvents == 3
\* config.GetMaxRetries(): requests repeated after a temporary failure.
StreamMaxRetries == 1

\* The token clock runs to MaxTokenTime ticks of 5 minutes.
MaxTokenTime == 3
\* The auth endpoint hands out at most MaxFetches tokens.
MaxFetches == 3
\* Pool construction is followed for MaxCreateCalls invocations of createFn.
MaxCreateCalls == 12
\* Each concurrent invocation receives at most MaxFragments fragments.
MaxFragments == 3
\* Tokens one Execute call of the render model receives.
MaxRenderTokens == 3
\* Changes a caller makes to the messages GetMessages returned.
MaxEdits == 2
\* Messages the loop of MessageHandler.Execute receives.
MaxUpdates == 3
\* The upstream sends at most MaxLines message lines to sendOnProcess's
\* adapter and MaxHandleLines to handleMessage's.
MaxLines == 6
MaxHandleLines == 2
\* 7200 s, the expiry used when the endpoint reports 0; in ticks, scaled.
DefaultExpire == 4
\* 300 s, subtracted from the reported expiry; one tick.
ExpireMargin == 1
\* 5 minutes, the early-refresh margin of the check; one tick.
RefreshMargin == 1

\* The timers of a turn, in ticks of 2.5 s: the idle timer of the adapter
\* (5 s), the no-content timer (10 s), the stream timer (55 s), the ctx of
\* Execute (60 s).
IdleTimeout == 2
NoContentTimeout == 4
StreamTimeout == 22
CtxTimeout == 24

\* totalSessions is followed down to -MaxDrift (Clear of a session that
\* SetMode or SetPicResolution created lowers it without bound).
MaxDrift == 1

MemoryThresholdCleanup == (MemoryLimit * 9) \div 10
MemoryThresholdWarn == (MemoryLimit * 8) \div 10

Users == {"u1", "u2"}
SessionIds == {"s1", "s2"}
MsgIds == {"m1", "m2"}
NoUser == ""

ModeGPT == "gpt"
ModePicCreate == "pic_create"
DefaultPicResolution == "512x512"

-----------------------------------------------------------------------------
(* Helpers.                                                                *)

Min(a, b) == IF a < b THEN a ELSE b

RECURSIVE SumOver(_, _)
SumOver(S, f) ==
  IF S = {} THEN 0
  ELSE LET x == CHOOSE y \in S : TRUE IN f[x] + SumOver(S \ {x}, f)

\* Byte length of the identifiers and role names that occur in JSON.
StrLen(s) ==
  CASE s = "user" -> 4
    [] s = "assistant" -> 9
    [] s = "system" -> 6
    [] s = "bot" -> 3
    [] s = "" -> 0
    [] s = "session_id" -> 10
    [] s = "user_id" -> 7
    [] OTHER -> 2            \* session, user and message ids: two bytes

NoMeta == [k \in {} |-> ""]
Msg(role, content) == [Role |-> role, Content |-> content, Metadata |-> NoMeta]
MsgM(role, content, md) == [Role |-> role, Content |-> content, Metadata |-> md]

\* Message.Validate
Validate(m) ==
  IF m.Role = "" THEN "message role cannot be empty"
  ELSE IF m.Content = <<>> THEN "message content cannot be empty"
  ELSE IF m.Role \notin {"system", "user", "assistant"} THEN "invalid message role"
  ELSE "ok"

\* json.Marshal of one Message: {"role":"..","content":".."[,"metadata":{..}]}
RECURSIVE MetaLen(_, _)
MetaLen(md, keys) ==
  IF keys = {} THEN 0
  ELSE LET k == CHOOSE x \in keys : TRUE
       IN StrLen(k) + StrLen(md[k]) + 5
          + (IF keys = {k} THEN 0 ELSE 1) + MetaLen(md, keys \ {k})

MessageJsonLen(m) ==
  24 + StrLen(m.Role) + Len(m.Content)
  + (IF DOMAIN m.Metadata = {} THEN 0
     ELSE 14 + MetaLen(m.Metadata, DOMAIN m.Metadata))

RECURSIVE MessagesJsonLen(_)
MessagesJsonLen(msgs) ==
  IF msgs = <<>> THEN 0
  ELSE MessageJsonLen(Head(msgs)) + (IF Len(msgs) > 1 THEN 1 ELSE 0)
       + MessagesJsonLen(Tail(msgs))

\* calculateSessionSize: len(json.Marshal(messages))
calculateSessionSize(msgs) == 2 + MessagesJsonLen(msgs)


-----------------------------------------------------------------------------
(* Session cache: services/sessionCache.go                                 *)

AllUsers == Users \cup {NoUser}

\* A SessionMeta together with the expiration go-cache keeps for its item.
NewMeta(mode, msgs, uid, t, size, pic, card, mid, conv, addr, exp) ==
  [Mode |-> mode, Messages |-> msgs, UserId |-> uid, UpdatedAt |-> t,
   MessageNum |-> Len(msgs), Size |-> size, PicResolution |-> pic,
   CardId |-> card, MessageId |-> mid, ConversationID |-> conv,
   CacheAddress |-> addr, Expiration |-> exp]

\* The session-cache state as one value, so that the handlers that call one
\* another (Clear from forceCleanup, ...) compose.
SessState ==
  [cache |-> cache, totalSessions |-> totalSessions,
   totalMemoryUsed |-> totalMemoryUsed, userSessionCount |-> userSessionCount,
   userMessageIndex |-> userMessageIndex]

\* cache.Get / cache.Items see an item until its expiration has passed; expired
\* items are dropped from the map when the clock advances (TTLExpire), so the
\* map holds exactly the items go-cache still returns.
Live(S, sid) == sid \in DOMAIN S.cache

Restrict(f, D) == [x \in D |-> f[x]]

\* The index holds pointers to SessionMeta objects.  A pointer to an object
\* that is no longer the one stored under its session id is detached: the
\* object stays as it was when it left the map (nothing reaches it to change
\* it); the model keeps of it only that it is stale.
IndexEntry(sid) == [sid |-> sid, detached |-> FALSE]
StaleMeta(uid, mid) ==
  NewMeta("", <<>>, uid, 0, 0, "", "stale", mid, "stale", "stale", 0)
Deref(S, p) ==
  LET e == S.userMessageIndex[p]
  IN IF e.detached THEN StaleMeta(p[1], p[2]) ELSE S.cache[e.sid]

Detach(S, sids) ==
  [p \in DOMAIN S.userMessageIndex |->
     LET e == S.userMessageIndex[p]
     IN IF ~e.detached /\ e.sid \in sids /\ e.sid \in DOMAIN S.cache
        THEN [sid |-> "", detached |-> TRUE]
        ELSE e]

\* cache.Delete(sid) for a set of ids.
CacheDelete(S, sids) ==
  [S EXCEPT !.userMessageIndex = Detach(S, sids),
            !.cache = Restrict(S.cache, DOMAIN S.cache \ sids)]

\* s.userSessionCount[u]--; if <= 0 { delete(s.userSessionCount, u) }
DecUserCount(cnt, u) == [cnt EXCEPT ![u] = IF @ - 1 <= 0 THEN 0 ELSE @ - 1]

\* Mutant of isDuplicateMessageUnsafe: the index is not consulted.
isDuplicateMessageUnsafe_NoCheck(idx, uid, mid) == FALSE

\* isDuplicateMessageUnsafe
isDuplicateMessageUnsafe(idx, uid, mid) == <<uid, mid>> \in DOMAIN idx

\* Clear, lines 283-300 (the part under the lock)
ClearSt(S, sid) ==
  IF Live(S, sid)
  THEN LET meta == S.cache[sid]
           p == <<meta.UserId, meta.MessageId>>
           S1 == [S EXCEPT
                    !.totalMemoryUsed = @ - meta.Size,
                    !.totalSessions = @ - 1,
                    !.userSessionCount = DecUserCount(@, meta.UserId)]
           S2 == CacheDelete(S1, {sid})
       IN [S2 EXCEPT !.userMessageIndex =
             Restrict(@, DOMAIN S2.userMessageIndex \ {p})]
  ELSE S

RECURSIVE ClearAll(_, _)
ClearAll(S, sids) ==
  IF sids = {} THEN S
  ELSE LET s == CHOOSE x \in sids : TRUE
       IN ClearAll(ClearSt(S, s), sids \ {s})

\* ClearUserSessions, lines 308-316
RECURSIVE DropSessions(_, _)
DropSessions(S, sids) ==
  IF sids = {} THEN S
  ELSE LET s == CHOOSE x \in sids : TRUE
           S1 == [S EXCEPT !.totalMemoryUsed = @ - S.cache[s].Size,
                           !.totalSessions = @ - 1]
       IN DropSessions(CacheDelete(S1, {s}), sids \ {s})

ClearUserSessionsSt(S, uid) ==
  LET mine == {s \in DOMAIN S.cache : S.cache[s].UserId = uid}
      S1 == DropSessions(S, mine)
  IN [S1 EXCEPT !.userSessionCount[uid] = 0]

\* CleanExpiredSessions, lines 339-359: meta.UpdatedAt.Before(now - TTL)
ExpiredByUpdatedAt(S, t) ==
  {s \in DOMAIN S.cache : S.cache[s].UpdatedAt < t - DefaultExpiration}

RECURSIVE DropExpired(_, _)
DropExpired(S, sids) ==
  IF sids = {} THEN S
  ELSE LET s == CHOOSE x \in sids : TRUE
           S1 == [S EXCEPT
                    !.totalMemoryUsed = @ - S.cache[s].Size,
                    !.totalSessions = @ - 1,
                    !.userSessionCount = DecUserCount(@, S.cache[s].UserId)]
       IN DropExpired(CacheDelete(S1, {s}), sids \ {s})

CleanExpiredSessionsSt(S, t) == DropExpired(S, ExpiredByUpdatedAt(S, t))

\* go-cache: an item whose expiration has passed is no longer returned.
ExpiredItems(S, t) == {s \in DOMAIN S.cache : t > S.cache[s].Expiration}
AdvanceClock(S, t) == CacheDelete(S, ExpiredItems(S, t))

\* cleanOldestUserSession, lines 384-394: the session Clear is called on
\* (map iteration order decides among equal UpdatedAt).
OldestUserSessions(S, uid) ==
  LET mine == {s \in DOMAIN S.cache : S.cache[s].UserId = uid}
  IN {s \in mine : \A o \in mine : S.cache[s].UpdatedAt <= S.cache[o].UpdatedAt}

\* sync.RWMutex is not reentrant: Lock() by the goroutine that already holds
\* the lock never returns.
LockWhileHeld == "stuck"


\* SetMessages, lines 196-208: the per-message checks, then the count check.
RECURSIVE ValidateAll(_)
ValidateAll(msgs) ==
  IF msgs = <<>> THEN "ok"
  ELSE IF Validate(Head(msgs)) # "ok" THEN "invalid message"
  ELSE IF Len(Head(msgs).Content) > MaxMessageLength THEN "message too long"
  ELSE ValidateAll(Tail(msgs))

\* Mutant of UserAtCap: the per-user limit is not enforced.
UserAtCap_Never(cnt) == FALSE

\* SetMessages, line 211
UserAtCap(cnt) == cnt >= MaxSessionsPerUser

\* The call that is stuck on s.mu, if any.  capNew: its caller owned
\* MaxSessionsPerUser sessions or more and named a session id that was not
\* in the cache.
NoCall == [op |-> "none", capNew |-> FALSE, cause |-> ""]

OwnedSessions(S, uid) == {s \in DOMAIN S.cache : S.cache[s].UserId = uid}

CapNew(S, sid, uid) ==
  ~Live(S, sid) /\ Cardinality(OwnedSessions(S, uid)) >= MaxSessionsPerUser

\* Writes a session-cache state back to the variables.
Store(S) ==
  /\ cache' = S.cache
  /\ totalSessions' = S.totalSessions
  /\ totalMemoryUsed' = S.totalMemoryUsed
  /\ userSessionCount' = S.userSessionCount
  /\ userMessageIndex' = S.userMessageIndex

\* SetMessages, lines 229-273: the insert or update once every check passed.
SetMessagesCommit(S, sid, uid, msgs, cardId, mid, conv, addr, t, exp) ==
  LET size == calculateSessionSize(msgs)
      exists == Live(S, sid)
      meta == IF exists
              THEN [S.cache[sid] EXCEPT
                      !.Messages = msgs, !.UpdatedAt = t,
                      !.MessageNum = Len(msgs), !.Size = size,
                      !.CardId = cardId, !.MessageId = mid,
                      !.ConversationID = conv, !.CacheAddress = addr,
                      !.Expiration = exp]
              ELSE NewMeta("", msgs, uid, t, size, "", cardId, mid, conv, addr, exp)
      mem == IF exists THEN S.totalMemoryUsed - S.cache[sid].Size
             ELSE S.totalMemoryUsed
  IN [S EXCEPT
        !.totalMemoryUsed = mem + size,
        !.totalSessions = IF exists THEN @ ELSE @ + 1,
        !.userSessionCount = IF exists THEN @ ELSE [@ EXCEPT ![uid] = @ + 1],
        !.cache = [s \in DOMAIN S.cache \cup {sid} |->
                     IF s = sid THEN meta ELSE S.cache[s]],
        !.userMessageIndex =
           [p \in DOMAIN S.userMessageIndex \cup {<<uid, mid>>} |->
              IF p = <<uid, mid>> THEN IndexEntry(sid)
              ELSE S.userMessageIndex[p]]]

\* Mutant of AtSessionCap: the total is not checked.
AtSessionCap_Never(total) == FALSE

\* SetMessages, line 233: atomic.LoadInt32(&s.totalSessions) >= MaxTotalSessions
AtSessionCap(total) == total >= MaxTotalSessions

\* SetMessages, lines 187-276, as a function of the state it is called in:
\* what it returns and the state it leaves.  "blocked": the call locks s.mu
\* again while holding it (cleanOldestUserSession -> s.Clear, forceCleanup ->
\* s.CleanExpiredSessions) and never returns.  t is time.Now() for UpdatedAt,
\* t + lag the time.Now() inside cache.Set.
SetMessagesOutcome(S, sid, uid, msgs, cardId, mid, conv, addr, t, lag) ==
  LET size == calculateSessionSize(msgs)
  IN IF isDuplicateMessageUnsafe(S.userMessageIndex, uid, mid)
     THEN [result |-> "duplicate message", cause |-> "", state |-> S]
     ELSE IF ValidateAll(msgs) # "ok"
     THEN [result |-> ValidateAll(msgs), cause |-> "", state |-> S]
     ELSE IF Len(msgs) > MaxMessagesPerSession
     THEN [result |-> "too many messages", cause |-> "", state |-> S]
     ELSE IF UserAtCap(S.userSessionCount[uid]) /\ OldestUserSessions(S, uid) # {}
     THEN [result |-> "blocked", cause |-> "cleanOldestUserSession", state |-> S]
     ELSE IF S.totalMemoryUsed + size > MemoryLimit
     THEN [result |-> "blocked", cause |-> "forceCleanup", state |-> S]
     ELSE IF ~Live(S, sid) /\ AtSessionCap(S.totalSessions)
     THEN [result |-> "blocked", cause |-> "forceCleanup", state |-> S]
     ELSE [result |-> "ok", cause |-> "",
           state |-> AdvanceClock(
                       SetMessagesCommit(S, sid, uid, msgs, cardId, mid, conv,
                                         addr, t, t + lag + DefaultExpiration),
                       t + lag)]

\* The pair whose acceptances the history variable counts.
TrackedPair == <<"u1", "m1">>

\* What a SetMessages call with outcome o leaves in the variables.
ApplyOutcome(o, sid, uid, mid) ==
  /\ Store(o.state)
  /\ sessionMu' = IF o.result = "blocked" THEN LockWhileHeld ELSE sessionMu
  /\ stuckCall' = IF o.result = "blocked"
                  THEN [op |-> "SetMessages",
                        capNew |-> CapNew(SessState, sid, uid),
                        cause |-> o.cause]
                  ELSE stuckCall
  /\ timesAccepted' = IF o.result = "ok" /\ <<uid, mid>> = TrackedPair
                      THEN Min(timesAccepted + 1, 2)
                      ELSE timesAccepted

SetMessages(sid, uid, msgs, cardId, mid, conv, addr, lag) ==
  /\ sessionMu = "free"
  /\ now + lag <= MaxTime
  /\ LET o == SetMessagesOutcome(SessState, sid, uid, msgs, cardId, mid, conv,
                                 addr, now, lag)
     IN /\ ApplyOutcome(o, sid, uid, mid)
        /\ now' = IF o.result = "ok" THEN now + lag ELSE now

\* Clear, lines 279-301
Clear(sid) ==
  /\ sessionMu = "free"
  /\ LET S2 == CacheDelete(ClearSt(SessState, sid), {sid})
     IN /\ Store(S2)
  /\ UNCHANGED <<sessionMu, now, stuckCall, timesAccepted>>

\* ClearUserSessions, lines 304-317
ClearUserSessions(uid) ==
  /\ sessionMu = "free"
  /\ LET S2 == ClearUserSessionsSt(SessState, uid)
     IN /\ Store(S2)
  /\ UNCHANGED <<sessionMu, now, stuckCall, timesAccepted>>

\* CleanExpiredSessions, lines 335-360 (the hourly sweeper calls it too)
CleanExpiredSessions ==
  /\ sessionMu = "free"
  /\ LET S2 == CleanExpiredSessionsSt(SessState, now)
     IN /\ Store(S2)
  /\ UNCHANGED <<sessionMu, now, stuckCall, timesAccepted>>

\* SetMode, lines 141-158, and SetPicResolution, lines 476-493: create the
\* session with only that field set, or update the field; both refresh
\* UpdatedAt and the item's expiration.
SetField(op, sid, field, value, lag) ==
  /\ sessionMu = "free"
  /\ now + lag <= MaxTime
  /\ LET S == SessState
         exp == now + lag + DefaultExpiration
         blank == NewMeta("", <<>>, NoUser, now, 0, "", "", "", "", "", exp)
         base == IF Live(S, sid)
                 THEN [S.cache[sid] EXCEPT !.UpdatedAt = now, !.Expiration = exp]
                 ELSE blank
         meta == IF field = "Mode" THEN [base EXCEPT !.Mode = value]
                 ELSE [base EXCEPT !.PicResolution = value]
         S1 == [S EXCEPT !.cache = [s \in DOMAIN S.cache \cup {sid} |->
                                      IF s = sid THEN meta ELSE S.cache[s]]]
         S2 == AdvanceClock(S1, now + lag)
     IN /\ Store(S2)
        /\ now' = now + lag
  /\ UNCHANGED <<sessionMu, stuckCall, timesAccepted>>

SetMode(sid, mode, lag) == SetField("SetMode", sid, "Mode", mode, lag)
SetPicResolution(sid, res, lag) ==
  SetField("SetPicResolution", sid, "PicResolution", res, lag)

\* forceCleanup, lines 400-432, as monitorMemory calls it (no lock held):
\* the expired sessions, then the oldest len/5 when memory is over the mark.
forceCleanup ==
  /\ sessionMu = "free"
  /\ LET S1 == CleanExpiredSessionsSt(SessState, now)
         n == Cardinality(DOMAIN S1.cache)
         cleanCount == n \div 5
     IN IF S1.totalMemoryUsed > MemoryThresholdCleanup
        THEN \E E \in SUBSET DOMAIN S1.cache :
               /\ Cardinality(E) = cleanCount
               /\ \A e \in E : \A o \in DOMAIN S1.cache \ E :
                    S1.cache[e].UpdatedAt <= S1.cache[o].UpdatedAt
               /\ LET S2 == ClearAll(S1, E)
                  IN /\ Store(S2)
        ELSE /\ Store(S1)
  /\ UNCHANGED <<sessionMu, now, stuckCall, timesAccepted>>

\* Time passes; go-cache stops returning the items whose expiration passed
\* (cache.New(DefaultExpiration, CleanupInterval), line 112).  No counter of
\* the SessionService is touched: the cache is given no eviction callback.
TTLExpire ==
  /\ now < MaxTime
  /\ now' = now + 1
  /\ Store(AdvanceClock(SessState, now + 1))
  /\ UNCHANGED <<sessionMu, stuckCall, timesAccepted>>

\* GetSessionInfo, lines 541-563: the index first, then a scan of the sessions.
GetSessionInfo(S, uid, mid) ==
  IF <<uid, mid>> \in DOMAIN S.userMessageIndex
  THEN <<Deref(S, <<uid, mid>>)>>
  ELSE LET hits == {s \in DOMAIN S.cache :
                      S.cache[s].UserId = uid /\ S.cache[s].MessageId = mid}
       IN IF hits = {} THEN <<>>
          ELSE <<S.cache[CHOOSE s \in hits : TRUE]>>

\* Mutant of GetMessages: the stored messages are returned as they are.
GetMessages_Stored(S, sid) ==
  IF ~Live(S, sid) THEN <<>> ELSE S.cache[sid].Messages

\* GetMessages, lines 161-184: a copy of the history, session_id added to
\* every message's metadata.
GetMessages(S, sid) ==
  IF ~Live(S, sid) THEN <<>>
  ELSE [i \in 1..Len(S.cache[sid].Messages) |->
          LET m == S.cache[sid].Messages[i]
          IN [m EXCEPT !.Metadata =
                [k \in DOMAIN m.Metadata \cup {"session_id"} |->
                   IF k = "session_id" THEN sid ELSE m.Metadata[k]]]]

InitSession ==
  /\ cache = [s \in {} |-> NoCall]
  /\ totalSessions = 0
  /\ totalMemoryUsed = 0
  /\ userSessionCount = [u \in AllUsers |-> 0]
  /\ userMessageIndex = [p \in {} |-> IndexEntry("")]
  /\ sessionMu = "free"
  /\ now = 0
  /\ stuckCall = NoCall
  /\ timesAccepted = 0

\* The message lists handed to SetMessages.
CharA == <<"a">>
CharsBB == <<"b", "b">>
TooLong == [i \in 1..(MaxMessageLength + 1) |-> "c"]
TooMany == [i \in 1..(MaxMessagesPerSession + 1) |-> Msg("user", CharA)]
ValidLists ==
  { <<Msg("user", CharA)>>,
    <<Msg("user", CharA), Msg("assistant", CharsBB)>> }
InvalidLists ==
  { <<Msg("bot", CharA)>>,
    <<Msg("user", <<>>)>>,
    <<Msg("user", TooLong)>>,
    TooMany }

Lags == {0, 1}

\* The calls of the environment, <<sid, uid, mid, msgs, lag>>: user u1 works
\* on every session id with every message id, user u2 on every session id
\* with message id m1; the two-message history goes to s1 and the clock
\* moves inside a call on s2.
SetMessagesCalls ==
  {c \in SessionIds \X Users \X MsgIds \X ValidLists \X Lags :
     /\ c[2] = "u1" \/ c[3] = "m1"
     /\ Len(c[4]) = 1 \/ c[1] = "s1"
     /\ c[5] = 0 \/ c[1] = "s2"}

SessionStep ==
  \/ \E c \in SetMessagesCalls :
       SetMessages(c[1], c[2], c[4], "card", c[3], "", "", c[5])
  \/ \E msgs \in InvalidLists :
       SetMessages("s1", "u1", msgs, "card", "m1", "", "", 0)
  \/ \E sid \in SessionIds : totalSessions > -MaxDrift /\ Clear(sid)
  \/ \E uid \in Users : ClearUserSessions(uid)
  \/ CleanExpiredSessions
  \/ SetMode("s1", ModePicCreate, 0)
  \/ SetPicResolution("s1", "256x256", 0)
  \/ forceCleanup
  \/ TTLExpire


-----------------------------------------------------------------------------
(* Message orchestrator: MessageAction.Execute, handleCompletion, and the  *)
(* card renderer's sequence counter (handlers/msg.go).                      *)

turnVars == <<processed, activeSessions, sequenceCounter, turn>>

Turns == {"t1", "t2"}

\* The tokens the stream delivers (strings of one character).
Tokens == {<<"a">>}

\* The text of the inbound message.
Question == <<"q">>

IdleTurn ==
  [pc |-> "idle", sid |-> "", uid |-> "", mid |-> "", fresh |-> FALSE,
   prior |-> <<>>, aiMessages |-> <<>>, answer |-> <<>>, puts |-> <<>>,
   closed |-> 0, setCalls |-> 0, setResult |-> "", result |-> "",
   card |-> FALSE, redelivered |-> FALSE]

\* The positions of a turn that is past the gate and has not returned.
PastGate == {"gated", "streaming", "blocked", "returning"}

\* Mutant of isActive: the gate does not look at the map.
isActive_Never(active, sid) == FALSE

\* Execute, line 361: m.activeSessions[*a.info.sessionId]
isActive(active, sid) == sid \in active

\* Mutant of getNextSequence: the counter is read and not advanced.
getNextSequence_Reuse(c) == c

\* getNextSequence: atomic.AddInt64(&sequenceCounter, 1)
getNextSequence(c) == c + 1

\* streamUpdateText: one PUT of the card text with the next sequence number.
streamUpdateText(T, seq, content, final) ==
  [T EXCEPT !.puts = Append(@, [seq |-> seq, content |-> content,
                                final |-> final])]

\* The user message Execute appends to the history, lines 395-403.
UserMessage(sid, uid, q) ==
  MsgM("user", q, [k \in {"session_id", "user_id"} |->
                     IF k = "session_id" THEN sid ELSE uid])

\* Mutant of IfProcessed: no message id is ever found.
IfProcessed_Never(tagged, key) == FALSE

\* messageCacheImpl.IfProcessed: _, exists := m.processed.Load(key)
IfProcessed(tagged, key) == key \in tagged

\* messageCacheImpl.TagProcessed: m.processed.Store(key, true)
TagProcessed(tagged, key) == tagged \cup {key}

\* A delivery as it arrives.  redelivered: an earlier delivery of the same
\* (user id, message id) has returned and the pair is in the session cache's
\* index.
Arrived(t, sid, uid, mid) ==
  [IdleTurn EXCEPT
     !.sid = sid, !.uid = uid, !.mid = mid,
     !.redelivered =
        /\ <<uid, mid>> \in DOMAIN userMessageIndex
        /\ \E u \in Turns \ {t} : /\ turn[u].pc = "done"
                                  /\ turn[u].uid = uid
                                  /\ turn[u].mid = mid]

\* Mutant of ExecuteGate: the rejected call runs the cleanup of the session
\* state, as if the defer were registered before the check.
ExecuteGate_RejectCleans(t, sid, uid, mid) ==
  /\ turn[t].pc = "idle"
  /\ IF isActive(activeSessions, sid)
     THEN /\ turn' = [turn EXCEPT ![t] =
                        [Arrived(t, sid, uid, mid)
                           EXCEPT !.pc = "done", !.result = "rejected"]]
          /\ activeSessions' = activeSessions \ {sid}
     ELSE /\ activeSessions' = activeSessions \cup {sid}
          /\ turn' = [turn EXCEPT ![t] =
                        [Arrived(t, sid, uid, mid) EXCEPT !.pc = "gated"]]
  /\ UNCHANGED <<sequenceCounter, sessVars>>

\* Execute, lines 360-375: the single-flight gate, check and insert under
\* activeSessionsMu.  A rejected call answers the user and returns.
ExecuteGate(t, sid, uid, mid) ==
  /\ turn[t].pc = "idle"
  /\ IF isActive(activeSessions, sid)
     THEN /\ turn' = [turn EXCEPT ![t] =
                        [Arrived(t, sid, uid, mid)
                           EXCEPT !.pc = "done", !.result = "rejected"]]
          /\ UNCHANGED activeSessions
     ELSE /\ activeSessions' = activeSessions \cup {sid}
          /\ turn' = [turn EXCEPT ![t] =
                        [Arrived(t, sid, uid, mid) EXCEPT !.pc = "gated"]]
  /\ UNCHANGED <<sequenceCounter, sessVars>>

\* One delivery of an inbound message through the chain of actions:
\* CommonMessageAction.Execute drops a message id that is tagged and tags
\* any other; chain() stops at the first action that returns false, so
\* MessageAction.Execute runs only for a message that was not dropped.
Deliver(t, sid, uid, mid) ==
  /\ turn[t].pc = "idle"
  /\ IF IfProcessed(processed, mid)
     THEN /\ turn' = [turn EXCEPT ![t] =
                        [Arrived(t, sid, uid, mid)
                           EXCEPT !.pc = "done", !.result = "dropped"]]
          /\ UNCHANGED <<processed, activeSessions, sequenceCounter, sessVars>>
     ELSE /\ processed' = TagProcessed(processed, mid)
          /\ ExecuteGate(t, sid, uid, mid)

\* Execute, lines 383-418: access control, GetMessages, the user message,
\* sendOnProcess (card and upstream request).  Outcome "upstream error": the
\* card was sent and the adapter failed within the 100 ms that
\* sendOnProcessCardAndDify waits; Execute answers with a text message.
\* Outcome "card pool blocked": sendOnProcessCard (msg.go lines 1413-1463)
\* called cardPool.GetCard on an empty pool, which does not return when it
\* has created the card (GetCard above); Execute stays in sendOnProcess.
StartTurn(t, outcome) ==
  /\ turn[t].pc = "gated"
  /\ IF outcome = "card pool blocked"
     THEN turn' = [turn EXCEPT ![t].pc = "blocked",
                               ![t].result = "not started"]
     ELSE IF outcome = "ok"
     THEN /\ sessionMu = "free"
          /\ LET T == turn[t]
                 prior == GetMessages(SessState, T.sid)
             IN turn' = [turn EXCEPT ![t] =
                  [T EXCEPT !.pc = "streaming",
                            !.card = TRUE,
                            !.fresh = /\ ~Live(SessState, T.sid)
                                      /\ GetSessionInfo(SessState, T.uid, T.mid) = <<>>,
                            !.prior = prior,
                            !.aiMessages =
                               Append(prior, UserMessage(T.sid, T.uid, Question))]]
     ELSE turn' = [turn EXCEPT ![t].pc = "returning",
                               ![t].card = (outcome = "upstream error"),
                               ![t].result = "not started"]
  /\ UNCHANGED <<processed, activeSessions, sequenceCounter, sessVars>>

\* Execute, lines 444-484: a token arrives; the answer grows and the card
\* text is PUT (updateTextCard -> streamUpdateText).
ReceiveToken(t, tok) ==
  /\ turn[t].pc = "streaming"
  /\ Len(turn[t].answer) < MaxTokens
  /\ LET seq == getNextSequence(sequenceCounter)
         T == [turn[t] EXCEPT !.answer = @ \o tok]
     IN /\ sequenceCounter' = seq
        /\ turn' = [turn EXCEPT ![t] = streamUpdateText(T, seq, T.answer, FALSE)]
  /\ UNCHANGED <<processed, activeSessions, sessVars>>

\* updateFinalCard, msg.go lines 1185-1200: the text PUT, then
\* closeStreamingMode unless the PUT failed.
updateFinalCard(T, seq, content, putOk) ==
  LET T1 == streamUpdateText(T, seq, content, TRUE)
  IN IF putOk THEN [T1 EXCEPT !.closed = @ + 1] ELSE T1

\* The final text Execute writes for each way out of the loop.
FinalText(why) == <<why>>

\* Execute, lines 446-456 and 486-500: the stream closing with an empty
\* answer, or one of the three timers; updateFinalCard gets the text for it
\* and Execute returns.  (Nothing sends on the errChan of Execute, line 420:
\* an upstream error after the first 100 ms closes the stream.)  When ctx is
\* done the PUT of updateFinalCard takes its sequence number and fails
\* without a request: http.NewRequestWithContext(ctx, ...).
AbortTurn(t, why, putOk) ==
  /\ turn[t].pc = "streaming"
  /\ why = "empty answer" => turn[t].answer = <<>>
  /\ why = "context done" => ~putOk
  /\ LET seq == getNextSequence(sequenceCounter)
     IN /\ sequenceCounter' = seq
        /\ turn' = [turn EXCEPT ![t] =
                      [(IF why = "context done" THEN turn[t]
                        ELSE updateFinalCard(turn[t], seq, FinalText(why), putOk))
                         EXCEPT !.pc = "returning", !.result = "aborted"]]
  /\ UNCHANGED <<processed, activeSessions, sessVars>>

\* handleCompletion, lines 506-548: the stream closed with an answer.
\* GetSessionInfo decides whether anything further happens; then the final
\* card, then SetMessages with the history, the user message and the answer.
handleCompletion(t, putOk) ==
  /\ turn[t].pc = "streaming"
  /\ turn[t].answer # <<>>
  /\ sessionMu = "free"
  /\ LET T == turn[t]
         info == GetSessionInfo(SessState, T.uid, T.mid)
         seq == getNextSequence(sequenceCounter)
         T1 == updateFinalCard(T, seq, T.answer, putOk)
         msgs == Append(T.aiMessages, Msg("assistant", T.answer))
     IN IF info = <<>>
        THEN /\ turn' = [turn EXCEPT ![t].pc = "returning",
                                     ![t].result = "session info not found"]
             /\ UNCHANGED <<sequenceCounter, sessVars>>
        ELSE IF ~putOk
        THEN /\ sequenceCounter' = seq
             /\ turn' = [turn EXCEPT ![t] =
                           [T1 EXCEPT !.pc = "returning",
                                      !.result = "final card failed"]]
             /\ UNCHANGED sessVars
        ELSE LET o == SetMessagesOutcome(SessState, T.sid, T.uid, msgs,
                                         info[1].CardId, T.mid,
                                         info[1].ConversationID,
                                         info[1].CacheAddress, now, 0)
             IN /\ sequenceCounter' = seq
                /\ ApplyOutcome(o, T.sid, T.uid, T.mid)
                /\ UNCHANGED now
                /\ turn' = [turn EXCEPT ![t] =
                             [T1 EXCEPT
                                !.pc = IF o.result = "blocked" THEN "blocked"
                                       ELSE "returning",
                                !.setCalls = @ + 1,
                                !.setResult = o.result,
                                !.result = "completed"]]
  /\ UNCHANGED <<processed, activeSessions>>

\* Execute, lines 370-375: the deferred delete(m.activeSessions, sessionId).
ReturnTurn(t) ==
  /\ turn[t].pc = "returning"
  /\ activeSessions' = activeSessions \ {turn[t].sid}
  /\ turn' = [turn EXCEPT ![t].pc = "done"]
  /\ UNCHANGED <<processed, sequenceCounter, sessVars>>

InitTurn ==
  /\ processed = {}
  /\ activeSessions = {}
  /\ sequenceCounter = 0
  /\ turn = [t \in Turns |-> IdleTurn]

\* The Execute calls of the environment, <<turn, sid, uid, mid>>: t2 is a
\* second message of u1 in the same session, the first message delivered
\* again, or a message of u2 elsewhere.
TurnInputs ==
  { <<"t1", "s1", "u1", "m1">>,
    <<"t2", "s1", "u1", "m2">>,
    <<"t2", "s1", "u1", "m1">>,
    <<"t2", "s2", "u2", "m3">> }

StartOutcomes ==
  {"ok", "access denied", "card error", "upstream error", "card pool blocked"}
AbortReasons ==
  {"empty answer", "no content timeout", "stream timeout", "context done"}

\* Other callers of the session cache while turns run.
TurnSeedCalls == { <<"s1", "u1", "m1">>, <<"s1", "u2", "m2">> }

TurnStep ==
  \/ \E c \in TurnInputs : Deliver(c[1], c[2], c[3], c[4])
  \/ \E t \in Turns, outcome \in StartOutcomes : StartTurn(t, outcome)
  \/ \E t \in Turns, tok \in Tokens : ReceiveToken(t, tok)
  \/ \E t \in Turns, why \in AbortReasons, putOk \in BOOLEAN :
       AbortTurn(t, why, putOk)
  \/ \E t \in Turns, putOk \in BOOLEAN : handleCompletion(t, putOk)
  \/ \E t \in Turns : ReturnTurn(t)
  \/ \E c \in TurnSeedCalls :
       /\ SetMessages(c[1], c[2], <<Msg("user", CharA)>>, "card", c[3], "", "", 0)
       /\ UNCHANGED turnVars
  \/ \E sid \in SessionIds : Clear(sid) /\ UNCHANGED turnVars

-----------------------------------------------------------------------------
(* Card pool: services/cardpool/cardpool.go                                *)

poolVars == <<cards, poolMu, refills, filler, isRunning, nextCardId, rebuilds,
              lastGet>>

NoRefills == [first |-> 0, second |-> 0]

\* CreateCardWithRetry, lines 170-180: the card is pushed at the back; the
\* length of the list is not looked at.
PushBack(q, id) == Append(q, id)

\* fillPool, lines 127-133: whether the loop stops at the size it read.
PoolFilled(size) == size >= PoolSize

\* GetCard, lines 191-237.  With a card queued: the front card leaves and a
\* refill goroutine is started.  With none queued: CreateCardWithRetry runs
\* under p.mu; when createFn failed MaxRetries times GetCard returns the
\* error, otherwise CreateCardWithRetry locks p.mu again and never returns.
GetCard(created) ==
  /\ poolMu = "free"
  /\ IF cards # <<>>
     THEN /\ cards' = Tail(cards)
          /\ refills' = [refills EXCEPT !.first = @ + 1]
          /\ lastGet' = [result |-> "ok", card |-> Head(cards)]
          /\ UNCHANGED <<poolMu, nextCardId>>
     ELSE IF created
     THEN /\ nextCardId < MaxCards
          /\ nextCardId' = nextCardId + 1
          /\ poolMu' = "stuck"
          /\ lastGet' = [result |-> "blocked", card |-> 0]
          /\ UNCHANGED <<cards, refills>>
     ELSE /\ lastGet' = [result |-> "failed to create card", card |-> 0]
          /\ UNCHANGED <<cards, refills, poolMu, nextCardId>>
  /\ UNCHANGED <<filler, isRunning, rebuilds>>

\* The refill goroutine of GetCard, lines 211-217 and 228-234:
\* CreateCardWithRetry, and one more CreateCardWithRetry when it failed.
Refill(level, created) ==
  /\ refills[level] > 0
  /\ IF created
     THEN /\ poolMu = "free"
          /\ nextCardId < MaxCards
          /\ nextCardId' = nextCardId + 1
          /\ cards' = PushBack(cards, nextCardId + 1)
          /\ refills' = [refills EXCEPT ![level] = @ - 1]
     ELSE /\ refills' = IF level = "first"
                        THEN [first |-> refills.first - 1,
                              second |-> refills.second + 1]
                        ELSE [refills EXCEPT !.second = @ - 1]
          /\ UNCHANGED <<cards, nextCardId>>
  /\ UNCHANGED <<poolMu, filler, isRunning, rebuilds, lastGet>>

\* rebuildAtMidnight and RebuildPool, lines 91-122: at midnight the list is
\* replaced by an empty one and fillPool starts.
RebuildPool ==
  /\ isRunning
  /\ filler = "idle"
  /\ poolMu = "free"
  /\ rebuilds < MaxRebuilds
  /\ rebuilds' = rebuilds + 1
  /\ cards' = <<>>
  /\ filler' = "read"
  /\ UNCHANGED <<poolMu, refills, isRunning, nextCardId, lastGet>>

\* fillPool, lines 126-133: the size is read under RLock.
FillRead ==
  /\ filler = "read"
  /\ poolMu = "free"
  /\ filler' = IF PoolFilled(Len(cards)) THEN "idle" ELSE "create"
  /\ UNCHANGED <<cards, poolMu, refills, isRunning, nextCardId, rebuilds, lastGet>>

\* fillPool, lines 138-148: CreateCardWithRetry, then the loop reads again
\* (also after a failure).
FillCreate(created) ==
  /\ filler = "create"
  /\ IF created
     THEN /\ poolMu = "free"
          /\ nextCardId < MaxCards
          /\ nextCardId' = nextCardId + 1
          /\ cards' = PushBack(cards, nextCardId + 1)
     ELSE UNCHANGED <<cards, nextCardId>>
  /\ filler' = "read"
  /\ UNCHANGED <<poolMu, refills, isRunning, rebuilds, lastGet>>

\* Stop, lines 79-88
Stop ==
  /\ poolMu = "free"
  /\ isRunning
  /\ isRunning' = FALSE
  /\ UNCHANGED <<cards, poolMu, refills, filler, nextCardId, rebuilds, lastGet>>

\* NewCardPool -> Init, lines 45-62: fillPool has filled the list and the
\* background task runs.
InitPool ==
  /\ cards = [i \in 1..PoolSize |-> i]
  /\ poolMu = "free"
  /\ refills = NoRefills
  /\ filler = "idle"
  /\ isRunning = TRUE
  /\ nextCardId = PoolSize
  /\ rebuilds = 0
  /\ lastGet = [result |-> "none", card |-> 0]

PoolStep ==
  \/ \E created \in BOOLEAN : GetCard(created)
  \/ \E level \in {"first", "second"}, created \in BOOLEAN : Refill(level, created)
  \/ RebuildPool
  \/ FillRead
  \/ \E created \in BOOLEAN : FillCreate(created)
  \/ Stop

-----------------------------------------------------------------------------
(* Construction of the card pool: NewCardPool -> Init -> fillPool, with     *)
(* the attempts of CreateCardWithRetry as single steps.                     *)

buildVars == <<build>>

\* cardpool.go line 15
MaxRetries == 3

\* Position of Init, the list being filled, and what has happened so far:
\* attempt is the loop index i of CreateCardWithRetry, calls the createFn
\* invocations made, tries those made since a card was last added, failures
\* the CreateCardWithRetry calls that returned an error.
IdleBuild ==
  [pc |-> "read", cards |-> <<>>, attempt |-> 0, calls |-> 0, tries |-> 0,
   failures |-> 0]

\* CreateCardWithRetry, line 159: for i := 0; i < MaxRetries; i++
RetriesLeft(i) == i < MaxRetries

\* fillPool, lines 126-133: the size is read; the loop ends at PoolSize and
\* Init goes on to startBackgroundTasks and returns.
BuildRead ==
  /\ build.pc = "read"
  /\ build' = IF PoolFilled(Len(build.cards))
              THEN [build EXCEPT !.pc = "done"]
              ELSE [build EXCEPT !.pc = "create", !.attempt = 0]

\* CreateCardWithRetry, lines 159-181: one invocation of createFn.  A card
\* is pushed and fillPool reads the size again; after the last failed
\* attempt the error goes to fillPool, which logs it and continues its loop
\* (lines 141-145).
BuildAttempt(created) ==
  /\ build.pc = "create"
  /\ build.calls < MaxCreateCalls
  /\ LET B == [build EXCEPT !.calls = @ + 1, !.tries = @ + 1,
                            !.attempt = @ + 1]
     IN build' =
          IF created
          THEN [B EXCEPT !.cards = PushBack(@, B.calls), !.tries = 0,
                         !.pc = "read"]
          ELSE IF RetriesLeft(B.attempt)
          THEN B
          ELSE [B EXCEPT !.failures = @ + 1, !.pc = "read"]

InitBuild == build = IdleBuild

BuildStep ==
  \/ BuildRead
  \/ \E created \in BOOLEAN : BuildAttempt(created)

-----------------------------------------------------------------------------
(* Streaming adapter: services/ai/dify/dify.go                             *)

streamVars ==
  <<sentContent, buffer, everSent, responseStream, call, conversations>>

\* ErrorCode values doStreamRequest returns (services/ai/types.go).
ErrorCodes == {"ErrConnectionFailed", "ErrTimeout", "ErrInvalidResponse"}

\* Mutant of IsTemporary: every error is retried.
IsTemporary_Always(code) == TRUE

\* Error.IsTemporary
IsTemporary(code) ==
  code \in {"ErrConnectionFailed", "ErrTimeout", "ErrRateLimited"}

Contents == {<<"a">>, <<"b">>}

\* A decoded SSE event (streamResponse): the fields processSSELine reads.
Event(kind, answer, text, thought) ==
  [event |-> kind, answer |-> answer, text |-> text, thought |-> thought]

Events ==
  {Event("message", <<>>, c, <<>>) : c \in Contents}
  \cup {Event("agent_message", c, <<>>, <<>>) : c \in Contents}
  \cup {Event("agent_message", <<>>, <<"a">>, <<>>),
        Event("message", <<>>, <<>>, <<>>),
        Event("agent_thought", <<>>, <<>>, <<"t">>),
        Event("ping", <<>>, <<>>, <<>>),
        Event("message_end", <<>>, <<>>, <<>>)}

\* processSSELine, lines 412-426: the content of a message or agent_message
\* event (data.answer and data.message are empty in the events modelled).
ExtractContent(ev) ==
  IF ev.event = "agent_message" /\ ev.answer # <<>> THEN ev.answer ELSE ev.text

RECURSIVE Flatten(_)
Flatten(ss) == IF ss = <<>> THEN <<>> ELSE Head(ss) \o Flatten(Tail(ss))

IsPrefix(p, s) == Len(p) <= Len(s) /\ SubSeq(s, 1, Len(p)) = p

IdleCall ==
  [pc |-> "idle", n |-> 0, events |-> 0, retry |-> 0, received |-> <<>>,
   emitted |-> <<>>, result |-> "", reqConv |-> 0, requests |-> 0,
   cne |-> FALSE, rejected |-> 0, ctxDone |-> FALSE, reissuedAfter |-> {}]

\* A non-blocking send on the channel: whether it goes through.
CanSend(ch) == Len(ch) < ChanCap

\* StreamChat, lines 118-200: a new invocation clears sentContent (and
\* nothing else of the provider), takes the cached conversation id of the
\* user into the request body and issues the first request.
StreamChat ==
  /\ call.pc = "idle"
  /\ call.n < MaxCalls
  /\ sentContent' = {}
  /\ call' = [IdleCall EXCEPT !.pc = "streaming", !.n = call.n + 1,
                              !.reqConv = conversations, !.requests = 1]
  /\ responseStream' = <<>>
  /\ UNCHANGED <<buffer, everSent, conversations>>

\* The conversation id the upstream puts into the events of the request in
\* flight: the one asked for, or a new one.
\* Ids are numbers: 0 is "", n the id made for the n-th StreamChat call.
UpstreamConv == IF call.reqConv # 0 THEN call.reqConv ELSE call.n

\* addToBufferAndSend, lines 483-512.  elapsed: 20 ms or more passed since
\* lastSendTime (always so while lastSendTime is the zero time).
addToBufferAndSend(content, elapsed) ==
  LET buf == buffer \o content
  IN IF elapsed \/ ~everSent
     THEN IF CanSend(responseStream)
          THEN /\ responseStream' = Append(responseStream, buf)
               /\ buffer' = <<>>
               /\ everSent' = TRUE
               /\ call' = [call EXCEPT !.events = @ + 1,
                                       !.received = Append(@, content),
                                       !.emitted = Append(@, buf)]
          ELSE /\ buffer' = buf
               /\ call' = [call EXCEPT !.pc = "idle",
                                       !.received = Append(@, content),
                                       !.result = "response stream is blocked"]
               /\ UNCHANGED <<responseStream, everSent>>
     ELSE /\ buffer' = buf
          /\ call' = [call EXCEPT !.events = @ + 1,
                                  !.received = Append(@, content)]
          /\ UNCHANGED <<responseStream, everSent>>

\* processSSELine, lines 360-480, for one decoded event.
processSSELine(ev, elapsed, conv) ==
  /\ call.pc = "streaming"
  /\ ~call.ctxDone
  /\ call.events < MaxEvents
  /\ conversations' = IF conv # 0 THEN conv ELSE conversations
  /\ IF ev.event \in {"message", "agent_message"}
     THEN LET content == ExtractContent(ev)
          IN IF content # <<>> /\ content \notin sentContent
             THEN /\ sentContent' = sentContent \cup {content}
                  /\ addToBufferAndSend(content, elapsed)
             ELSE /\ call' = [call EXCEPT !.events = @ + 1]
                  /\ UNCHANGED <<sentContent, buffer, everSent, responseStream>>
     ELSE IF ev.event = "agent_thought"
     THEN IF ev.thought # <<>> /\ ev.thought \notin sentContent
          THEN /\ sentContent' = sentContent \cup {ev.thought}
               /\ IF CanSend(responseStream)
                  THEN /\ responseStream' = Append(responseStream, ev.thought)
                       /\ call' = [call EXCEPT !.events = @ + 1,
                                               !.emitted = Append(@, ev.thought)]
                  ELSE /\ call' = [call EXCEPT
                                     !.pc = "idle",
                                     !.result = "response stream is blocked"]
                       /\ UNCHANGED responseStream
               /\ UNCHANGED <<buffer, everSent>>
          ELSE /\ call' = [call EXCEPT !.events = @ + 1]
               /\ UNCHANGED <<sentContent, buffer, everSent, responseStream>>
     ELSE /\ call' = [call EXCEPT !.events = @ + 1]
          /\ UNCHANGED <<sentContent, buffer, everSent, responseStream>>

\* doStreamRequest, lines 319-330: the body ends; StreamChat returns nil.
\* d.buffer is left as it is.
EndOfStream ==
  /\ call.pc = "streaming"
  /\ ~call.ctxDone
  /\ call' = [call EXCEPT !.pc = "idle", !.result = "ok"]
  /\ UNCHANGED <<sentContent, buffer, everSent, responseStream, conversations>>

\* StreamChat, lines 202-212: the request failed with an error whose text
\* contains "Conversation Not Exists" (the upstream does not know the id of
\* the request); the id is cleared in the request body and the request is
\* issued again at once.  d.conversations is not touched.
ConversationNotExists ==
  /\ call.pc = "streaming"
  /\ ~call.ctxDone
  /\ call.reqConv # 0
  /\ call' = [call EXCEPT !.reqConv = 0, !.requests = @ + 1, !.cne = TRUE,
                          !.rejected = call.reqConv,
                          !.reissuedAfter = @ \cup {"Conversation Not Exists"}]
  /\ UNCHANGED <<sentContent, buffer, everSent, responseStream, conversations>>

\* StreamChat, lines 214-223: the request failed with an error of the given
\* code; a permanent one is returned, a temporary one takes the loop to its
\* next round, which waits retry seconds, unless the rounds are used up.
\* After ctx is done the request fails with ErrTimeout ("context cancelled").
RequestFailed(code) ==
  /\ call.pc = "streaming"
  /\ call.ctxDone => code = "ErrTimeout"
  /\ IF ~IsTemporary(code)
     THEN call' = [call EXCEPT !.pc = "idle", !.result = "error"]
     ELSE IF call.retry < StreamMaxRetries
     THEN call' = [call EXCEPT !.pc = "backoff", !.retry = @ + 1,
                               !.reissuedAfter = @ \cup {code}]
     ELSE call' = [call EXCEPT !.pc = "idle",
                               !.result = "max retries exceeded"]
  /\ UNCHANGED <<sentContent, buffer, everSent, responseStream, conversations>>

\* StreamChat, lines 187-193: time.After(retry seconds) fires with ctx alive
\* and the request is issued again.
BackoffElapsed ==
  /\ call.pc = "backoff"
  /\ ~call.ctxDone
  /\ call' = [call EXCEPT !.pc = "streaming", !.requests = @ + 1]
  /\ UNCHANGED <<sentContent, buffer, everSent, responseStream, conversations>>

\* StreamChat, lines 188-190: ctx.Done() is ready in the select of the
\* backoff: the call returns "context cancelled during retry".
BackoffCancelled ==
  /\ call.pc = "backoff"
  /\ call.ctxDone
  /\ call' = [call EXCEPT !.pc = "idle",
                          !.result = "context cancelled during retry"]
  /\ UNCHANGED <<sentContent, buffer, everSent, responseStream, conversations>>

\* The caller's ctx is cancelled or times out while the call runs.
CtxDone ==
  /\ call.pc \in {"streaming", "backoff"}
  /\ ~call.ctxDone
  /\ call' = [call EXCEPT !.ctxDone = TRUE]
  /\ UNCHANGED <<sentContent, buffer, everSent, responseStream, conversations>>

\* The reader of the channel takes the oldest string.
Consume ==
  /\ responseStream # <<>>
  /\ responseStream' = Tail(responseStream)
  /\ UNCHANGED <<sentContent, buffer, everSent, call, conversations>>

InitStream ==
  /\ sentContent = {}
  /\ buffer = <<>>
  /\ everSent = FALSE
  /\ responseStream = <<>>
  /\ call = IdleCall
  /\ conversations = 0

StreamStep ==
  \/ StreamChat
  \/ \E ev \in Events, elapsed \in BOOLEAN, conv \in {0, UpstreamConv} :
       processSSELine(ev, elapsed, conv)
  \/ EndOfStream
  \/ ConversationNotExists
  \/ \E code \in ErrorCodes : RequestFailed(code)
  \/ BackoffElapsed
  \/ BackoffCancelled
  \/ CtxDone
  \/ Consume

-----------------------------------------------------------------------------
(* Two StreamChat invocations on the one DifyProvider: the map of content   *)
(* already sent is a field of the provider (dify.go line 26), assigned at   *)
(* the start of every invocation and read and written, without a lock, for  *)
(* every fragment.                                                          *)

shareVars == <<providerSent, invocation>>

Invocations == {"i1", "i2"}

IdleInvocation == [pc |-> "idle", received |-> <<>>, passed |-> <<>>]

\* The fragments of s that did not occur earlier in s (nor in had).
RECURSIVE KeepNew(_, _)
KeepNew(s, had) ==
  IF s = <<>> THEN <<>>
  ELSE IF Head(s) \in had THEN KeepNew(Tail(s), had)
  ELSE <<Head(s)>> \o KeepNew(Tail(s), had \cup {Head(s)})

Running(i) == invocation[i].pc = "running"

\* StreamChat, lines 119-122: d.sentContent = make(map[string]bool)
ShareBegin(i) ==
  /\ invocation[i].pc = "idle"
  /\ providerSent' = {}
  /\ invocation' = [invocation EXCEPT ![i].pc = "running"]

\* processSSELine, lines 430-441: a fragment found in d.sentContent is
\* skipped, any other is entered in the map and passed on to the buffer.
\* The map is accessed without d.mu: with another invocation running, the
\* entry may not be kept (kept = FALSE).
ShareFragment(i, content, kept) ==
  /\ Running(i)
  /\ Len(invocation[i].received) < MaxFragments
  /\ ~kept => \E j \in Invocations \ {i} : Running(j)
  /\ IF content \in providerSent
     THEN /\ invocation' = [invocation EXCEPT ![i].received = Append(@, content)]
          /\ UNCHANGED providerSent
     ELSE /\ invocation' = [invocation EXCEPT
                              ![i].received = Append(@, content),
                              ![i].passed = Append(@, content)]
          /\ providerSent' = IF kept THEN providerSent \cup {content}
                             ELSE providerSent

\* StreamChat returns.
ShareEnd(i) ==
  /\ Running(i)
  /\ invocation' = [invocation EXCEPT ![i].pc = "returned"]
  /\ UNCHANGED providerSent

\* Two goroutines in the map at once: the runtime may stop the process
\* ("concurrent map writes").
ShareFault ==
  /\ \A i \in Invocations : Running(i)
  /\ invocation' = [i \in Invocations |-> [invocation[i] EXCEPT !.pc = "crashed"]]
  /\ UNCHANGED providerSent

InitShare ==
  /\ providerSent = {}
  /\ invocation = [i \in Invocations |-> IdleInvocation]

ShareStep ==
  \/ \E i \in Invocations : ShareBegin(i)
  \/ \E i \in Invocations, content \in Contents, kept \in BOOLEAN :
       ShareFragment(i, content, kept)
  \/ \E i \in Invocations : ShareEnd(i)
  \/ ShareFault

-----------------------------------------------------------------------------
(* The loop of Execute with its timers, and the adapter goroutine it reads  *)
(* from: handlers (MessageAction.Execute), services/dify (DifyClient).      *)
(* Time is counted in ticks of 2.5 s; a timer set to d ticks has fired     *)
(* once d ticks have passed, and an event may fall before or after a       *)
(* timer that is due in the same tick.                                      *)

watchVars == <<watch>>

\* The time sendOnProcess took (card creation), in ticks.
SetupTicks == {0, 3}

\* What the adapter reads from the body: a message event with text, a ping
\* (any line it skips), the end ([DONE], a done event, io.EOF), an error.
LineKinds == {"message", "ping", "[DONE]", "error"}

IdleWatch ==
  [pc |-> "idle", adapter |-> "idle", idleAge |-> 0, pending |-> 0,
   answered |-> FALSE, noContentTimeout |-> 0, streamTimeout |-> 0,
   ctxLeft |-> 0, quiet |-> 0, kinds |-> {}, reason |-> "",
   finalText |-> <<>>, persisted |-> FALSE]

\* Execute, lines 458-459: noContentTimeout.Stop(); Reset(10 * time.Second)
ResetNoContent(left) == NoContentTimeout

\* Mutant of AnswerIsEmpty: the closed stream is always taken as an answer.
AnswerIsEmpty_Never(answered) == FALSE

\* Execute, line 450: answer == ""
AnswerIsEmpty(answered) == ~answered

\* Execute, lines 389-431: sendOnProcess has returned; the timers are
\* created, the 60 s ctx has been running since before sendOnProcess, the
\* adapter goroutine has set its idle timer and reads.
WatchStart(setup) ==
  /\ watch.pc = "idle"
  /\ watch' = [IdleWatch EXCEPT !.pc = "streaming", !.adapter = "reading",
                                !.noContentTimeout = NoContentTimeout,
                                !.streamTimeout = StreamTimeout,
                                !.ctxLeft = CtxTimeout - setup]

\* DifyClient.StreamChat, lines 207-286: ReadString returns a line, the line
\* is handled, and the select at the top of the loop runs again: fired says
\* whether idleTimer (reset before the read) has fired meanwhile, in which
\* case StreamChat returns "stream idle timeout".  Every return closes
\* responseStream (line 101).
ReadLine(kind, fired) ==
  /\ watch.pc = "streaming"
  /\ watch.adapter = "reading"
  /\ watch.pending = 0
  /\ watch.idleAge < IdleTimeout => ~fired
  /\ watch.idleAge > IdleTimeout => fired
  /\ watch' = [watch EXCEPT
       !.kinds = @ \cup {kind},
       !.pending = IF kind = "message" THEN 1 ELSE 0,
       !.adapter = IF kind \in {"[DONE]", "error"} \/ fired
                   THEN "closed" ELSE "reading",
       !.idleAge = 0]

\* Execute, lines 445-484: a token is received; the no-content timer is
\* restarted, the answer grows, the card text is PUT.
WatchToken ==
  /\ watch.pc = "streaming"
  /\ watch.pending = 1
  /\ watch' = [watch EXCEPT
       !.pending = 0,
       !.answered = TRUE,
       !.noContentTimeout = ResetNoContent(@),
       !.quiet = 0]

\* Execute, lines 446-456: the stream is closed and drained; with an empty
\* answer the card gets its text for that, otherwise handleCompletion runs.
WatchClosed ==
  /\ watch.pc = "streaming"
  /\ watch.adapter = "closed"
  /\ watch.pending = 0
  /\ IF AnswerIsEmpty(watch.answered)
     THEN watch' = [watch EXCEPT !.pc = "returned",
                                 !.reason = "empty answer",
                                 !.finalText = FinalText("empty answer")]
     ELSE watch' = [watch EXCEPT !.pc = "returned",
                                 !.reason = "completed",
                                 !.persisted = TRUE]

\* Execute, lines 486-500: one of the timers has fired, or ctx is done.
WatchTimeout(why) ==
  /\ watch.pc = "streaming"
  /\ \/ why = "no content timeout" /\ watch.noContentTimeout = 0
     \/ why = "stream timeout" /\ watch.streamTimeout = 0
     \/ why = "context done" /\ watch.ctxLeft = 0
  /\ watch' = [watch EXCEPT
       !.pc = "returned",
       !.reason = why,
       !.finalText = IF why = "context done" THEN <<>> ELSE FinalText(why)]

\* One tick passes while Execute waits in its select with nothing ready.
WatchTick ==
  /\ watch.pc = "streaming"
  /\ watch.pending = 0
  /\ watch.adapter # "closed"
  /\ watch.noContentTimeout > 0
  /\ watch.streamTimeout > 0
  /\ watch.ctxLeft > 0
  /\ watch' = [watch EXCEPT
       !.noContentTimeout = @ - 1,
       !.streamTimeout = @ - 1,
       !.ctxLeft = @ - 1,
       !.quiet = @ + 1,
       !.idleAge = Min(@ + 1, IdleTimeout + 1)]

\* The next Execute call.
WatchAgain ==
  /\ watch.pc = "returned"
  /\ watch' = IdleWatch

InitWatch == watch = IdleWatch

WatchStep ==
  \/ \E setup \in SetupTicks : WatchStart(setup)
  \/ \E kind \in LineKinds, fired \in BOOLEAN : ReadLine(kind, fired)
  \/ WatchToken
  \/ WatchClosed
  \/ \E why \in AbortReasons : WatchTimeout(why)
  \/ WatchTick
  \/ WatchAgain

-----------------------------------------------------------------------------
(* The token channels of a turn and the goroutines on them.                 *)
(* pipe: sendOnProcess (handlers) starts DifyClient.StreamChat, which sends *)
(* on responseStream, and a relay goroutine that forwards responseStream to *)
(* processedStream, which Execute reads.                                    *)
(* hm: handleMessage makes responseStream, starts DifyProvider.StreamChat   *)
(* on it and ranges over it.                                                *)
(* A channel is the number of strings buffered in it and the list of the    *)
(* goroutines that have closed it.                                          *)

chanVars == <<pipe, hm>>

IdlePipe ==
  [pc |-> "idle", adapter |-> "none", relay |-> "none", left |-> 0,
   responseStream |-> 0, responseClosers |-> <<>>,
   processedStream |-> 0, processedClosers |-> <<>>,
   sentAfterClose |-> FALSE]

\* Whether a buffered channel takes one more string without blocking.
HasRoom(n) == n < ChanCap

\* sendOnProcess, lines 554-610: sendOnProcessCardAndDify has started the
\* adapter goroutine on responseStream and seen no error within 100 ms; the
\* relay goroutine is started and Execute enters its loop on
\* processedStream.  The upstream has n message lines to send.
PipeStart(n) ==
  /\ pipe.pc = "idle"
  /\ pipe' = [IdlePipe EXCEPT !.pc = "reading", !.adapter = "reading",
                              !.relay = "receiving", !.left = n]

\* sendOnProcessCardAndDify, lines 636-644: the adapter returned an error
\* within 100 ms (its deferred close has run); sendOnProcess returns the
\* error before the relay goroutine is started and Execute returns.
PipeStartFailed ==
  /\ pipe.pc = "idle"
  /\ pipe' = [IdlePipe EXCEPT !.pc = "returned", !.adapter = "returned",
                              !.responseClosers = <<"adapter">>]

\* DifyClient.StreamChat, lines 207-276: a message line has been read; the
\* adapter is at responseStream <- streamResp.Data.Text.
AdapterRead ==
  /\ pipe.adapter = "reading"
  /\ pipe.left > 0
  /\ pipe' = [pipe EXCEPT !.adapter = "sending", !.left = @ - 1]

\* DifyClient.StreamChat, line 276: the blocking send.  A send on a closed
\* channel panics.
AdapterSend ==
  /\ pipe.adapter = "sending"
  /\ IF pipe.responseClosers # <<>>
     THEN pipe' = [pipe EXCEPT !.adapter = "returned",
                               !.sentAfterClose = TRUE]
     ELSE /\ HasRoom(pipe.responseStream)
          /\ pipe' = [pipe EXCEPT !.adapter = "reading",
                                  !.responseStream = @ + 1]

\* DifyClient.StreamChat, lines 101 and 208-283: the adapter returns (ctx
\* done, idle timer, EOF, [DONE], error or done event) and the deferred
\* close(responseStream) runs.
AdapterReturn ==
  /\ pipe.adapter = "reading"
  /\ pipe' = [pipe EXCEPT !.adapter = "returned",
                          !.responseClosers = Append(@, "adapter")]

\* The relay goroutine, lines 600-602: for msg := range responseStream.
RelayReceive ==
  /\ pipe.relay = "receiving"
  /\ pipe.responseStream > 0
  /\ pipe' = [pipe EXCEPT !.relay = "sending", !.responseStream = @ - 1]

\* The relay goroutine, line 602: processedStream <- msg, a blocking send.
RelaySend ==
  /\ pipe.relay = "sending"
  /\ IF pipe.processedClosers # <<>>
     THEN pipe' = [pipe EXCEPT !.relay = "returned", !.sentAfterClose = TRUE]
     ELSE /\ HasRoom(pipe.processedStream)
          /\ pipe' = [pipe EXCEPT !.relay = "receiving",
                                  !.processedStream = @ + 1]

\* The relay goroutine, lines 599-604: responseStream is closed and empty;
\* the range ends and the deferred close(processedStream) runs.
RelayReturn ==
  /\ pipe.relay = "receiving"
  /\ pipe.responseStream = 0
  /\ pipe.responseClosers # <<>>
  /\ pipe' = [pipe EXCEPT !.relay = "returned",
                          !.processedClosers = Append(@, "relay")]

\* Execute, lines 445-484: a token is received from the channel.
ExecReceive ==
  /\ pipe.pc = "reading"
  /\ pipe.processedStream > 0
  /\ pipe' = [pipe EXCEPT !.processedStream = @ - 1]

\* Execute, lines 446-456 and 486-500: the channel is closed and empty, or
\* one of the timers or ctx.Done() is ready; Execute returns.  The ctx that
\* its deferred cancel ends is the child made at line 389; the adapter runs
\* on the parent (*a.ctx).
ExecReturn(timeout) ==
  /\ pipe.pc = "reading"
  /\ ~timeout => (pipe.processedStream = 0 /\ pipe.processedClosers # <<>>)
  /\ pipe' = [pipe EXCEPT !.pc = "returned"]

IdleHandle ==
  [pc |-> "idle", sender |-> "none", left |-> 0, closers |-> <<>>,
   sentAfterClose |-> FALSE]

\* handleMessage, lines 67-93: the unbuffered responseStream is made and its
\* close deferred; when GetCard fails handleMessage returns, otherwise
\* StreamChat is started in a goroutine and the range loop begins.
HandleStart(cardOk, n) ==
  /\ hm.pc = "idle"
  /\ hm' = IF cardOk
           THEN [IdleHandle EXCEPT !.pc = "ranging", !.sender = "running",
                                   !.left = n]
           ELSE [IdleHandle EXCEPT !.pc = "returned",
                                   !.closers = <<"receiver">>]

\* DifyProvider.addToBufferAndSend, lines 499-506 (and processSSELine, lines
\* 452-456): the send in a select with a default.  On a closed channel the
\* send panics; with the receiver waiting the string is handed over; with
\* the receiver busy the default returns "response stream is blocked".
HandleSend ==
  /\ hm.sender = "running"
  /\ hm.left > 0
  /\ hm' = IF hm.closers # <<>>
           THEN [hm EXCEPT !.sender = "returned", !.sentAfterClose = TRUE]
           ELSE IF hm.pc = "ranging"
           THEN [hm EXCEPT !.pc = "updating", !.left = @ - 1]
           ELSE [hm EXCEPT !.sender = "returned"]

\* DifyProvider.StreamChat returns (end of the stream, an error, aiCtx
\* done); it does not close responseStream.
HandleSenderReturn ==
  /\ hm.sender = "running"
  /\ hm' = [hm EXCEPT !.sender = "returned"]

\* handleMessage, lines 96-108: UpdateCardContent for the string received;
\* on an error handleMessage returns and the deferred close(responseStream)
\* runs.
HandleUpdate(ok) ==
  /\ hm.pc = "updating"
  /\ hm' = IF ok
           THEN [hm EXCEPT !.pc = "ranging"]
           ELSE [hm EXCEPT !.pc = "returned",
                           !.closers = Append(@, "receiver")]

InitChan == pipe = IdlePipe /\ hm = IdleHandle

ChanStep ==
  \/ /\ \/ \E n \in 0..MaxLines : PipeStart(n)
        \/ PipeStartFailed
        \/ AdapterRead
        \/ AdapterSend
        \/ AdapterReturn
        \/ RelayReceive
        \/ RelaySend
        \/ RelayReturn
        \/ ExecReceive
        \/ \E timeout \in BOOLEAN : ExecReturn(timeout)
     /\ UNCHANGED hm
  \/ /\ \/ \E cardOk \in BOOLEAN, n \in 0..MaxHandleLines :
             HandleStart(cardOk, n)
        \/ HandleSend
        \/ HandleSenderReturn
        \/ \E ok \in BOOLEAN : HandleUpdate(ok)
     /\ UNCHANGED pipe

-----------------------------------------------------------------------------
(* Token cache: handlers/msg.go getTenantAccessToken                       *)

tokenVars == <<tokenCache, tokenExpiry, tokenCacheMu, tokenNow, caller>>

Callers == {"c1", "c2"}

\* The expiry (ticks) the endpoint reports: none, short, the usual one.
ReportedExpires == {0, 2, 4}

IdleCaller ==
  [pc |-> "idle", waited |-> FALSE, freshAtLock |-> FALSE, didIO |-> FALSE,
   result |-> 0, cacheAtLock |-> 0, failed |-> FALSE]

\* tokenCache != "" && time.Now().Before(tokenExpiry.Add(-5*time.Minute))
TokenFresh(tok, exp, t) == tok # 0 /\ t < exp - RefreshMargin

\* Mutant of DoubleCheck: the slow path does not look at the cache again.
DoubleCheck_Skipped(tok, exp, t) == FALSE

\* Lines 277-280: the check repeated under the write lock.
DoubleCheck(tok, exp, t) == TokenFresh(tok, exp, t)

\* Lines 264-271: the check under the read lock (a writer excludes it).
FastPath(c) ==
  /\ caller[c].pc = "idle"
  /\ tokenCacheMu = "none"
  /\ IF TokenFresh(tokenCache, tokenExpiry, tokenNow)
     THEN caller' = [caller EXCEPT ![c] =
                       [IdleCaller EXCEPT !.pc = "done", !.result = tokenCache]]
     ELSE caller' = [caller EXCEPT ![c] = [IdleCaller EXCEPT !.pc = "waiting"]]
  /\ UNCHANGED <<tokenCache, tokenExpiry, tokenCacheMu, tokenNow>>

\* Lines 273-280: the write lock is obtained and the check repeated; a fresh
\* token is returned (the deferred Unlock runs), otherwise the request is
\* sent with the lock held.
AcquireLock(c) ==
  /\ caller[c].pc = "waiting"
  /\ tokenCacheMu = "none"
  /\ LET fresh == TokenFresh(tokenCache, tokenExpiry, tokenNow)
         C == [caller[c] EXCEPT !.freshAtLock = fresh,
                                !.cacheAtLock = tokenCache]
     IN IF DoubleCheck(tokenCache, tokenExpiry, tokenNow)
        THEN /\ caller' = [caller EXCEPT ![c] =
                             [C EXCEPT !.pc = "done", !.result = tokenCache]]
             /\ UNCHANGED tokenCacheMu
        ELSE /\ caller' = [caller EXCEPT ![c] =
                             [C EXCEPT !.pc = "io", !.didIO = TRUE]]
             /\ tokenCacheMu' = c
  /\ UNCHANGED <<tokenCache, tokenExpiry, tokenNow>>

\* Mutant of ExpiresIn: the larger of the reported expiry and DefaultExpire.
ExpiresIn_AtLeastDefault(expire) ==
  IF expire > DefaultExpire THEN expire ELSE DefaultExpire

\* Lines 359-363: expiresIn := result.Expire; if expiresIn == 0 { 7200 }
ExpiresIn(expire) == IF expire = 0 THEN DefaultExpire ELSE expire

\* Lines 353-367: the endpoint answered with a token; expire 0 stands for
\* DefaultExpire.  The callers waiting for the lock have waited through it.
RefreshSucceeds(c, expire) ==
  /\ caller[c].pc = "io"
  /\ tokenCache < MaxFetches
  /\ LET expiresIn == ExpiresIn(expire)
     IN /\ tokenCache' = tokenCache + 1
        /\ tokenExpiry' = tokenNow + (expiresIn - ExpireMargin)
        /\ caller' = [x \in Callers |->
                        IF x = c
                        THEN [caller[x] EXCEPT !.pc = "done",
                                               !.result = tokenCache + 1]
                        ELSE IF caller[x].pc = "waiting"
                        THEN [caller[x] EXCEPT !.waited = TRUE]
                        ELSE caller[x]]
  /\ tokenCacheMu' = "none"
  /\ UNCHANGED tokenNow

\* Mutant of StaleUsable: a failed refresh never falls back on the cache.
StaleUsable_Never(tok, exp, t) == FALSE

\* Lines 312, 324, 341, 350: tokenCache != "" && time.Now().Before(tokenExpiry)
StaleUsable(tok, exp, t) == tok # 0 /\ t < exp

\* Lines 310-351: the request failed (network, status, decoding, API code);
\* a cached token that has not expired is returned, otherwise the error
\* (result -1).  The deferred Unlock runs.
RefreshFails(c) ==
  /\ caller[c].pc = "io"
  /\ caller' = [caller EXCEPT ![c].pc = "done",
                               ![c].failed = TRUE,
                               ![c].result =
                                  IF StaleUsable(tokenCache, tokenExpiry, tokenNow)
                                  THEN tokenCache ELSE -1]
  /\ tokenCacheMu' = "none"
  /\ UNCHANGED <<tokenCache, tokenExpiry, tokenNow>>

\* The caller returned; a later call starts from the top.
CallAgain(c) ==
  /\ caller[c].pc = "done"
  /\ caller' = [caller EXCEPT ![c] = IdleCaller]
  /\ UNCHANGED <<tokenCache, tokenExpiry, tokenCacheMu, tokenNow>>

TokenTick ==
  /\ tokenNow < MaxTokenTime
  /\ tokenNow' = tokenNow + 1
  /\ UNCHANGED <<tokenCache, tokenExpiry, tokenCacheMu, caller>>

InitToken ==
  /\ tokenCache = 0
  /\ tokenExpiry = 0
  /\ tokenCacheMu = "none"
  /\ tokenNow = 0
  /\ caller = [c \in Callers |-> IdleCaller]

TokenStep ==
  \/ \E c \in Callers : FastPath(c)
  \/ \E c \in Callers : AcquireLock(c)
  \/ \E c \in Callers, expire \in ReportedExpires : RefreshSucceeds(c, expire)
  \/ \E c \in Callers : RefreshFails(c)
  \/ \E c \in Callers : CallAgain(c)
  \/ TokenTick

-----------------------------------------------------------------------------
(* Card updates of a turn as handlers/event_msg_action.go sends them: the   *)
(* loop of Execute accumulates the answer and starts one goroutine per     *)
(* update; the goroutine calls updateTextCard, whose streamUpdateText      *)
(* takes the sequence number and sends the PUT.                            *)

renderVars == <<render>>

IdleRender ==
  [pc |-> "streaming", received |-> 0, answer |-> <<>>, updating |-> {},
   counter |-> 0, puts |-> <<>>]

RenderTokens == {<<"a">>, <<"b">>, <<"c">>}

\* strings.Contains(s, sub)
Contains(s, sub) ==
  \E i \in 0..(Len(s) - Len(sub)) : SubSeq(s, i + 1, i + Len(sub)) = sub

\* Execute, lines 414-443: a token is received; unless the answer contains
\* it, it is appended (after a newline when the answer is not empty), and
\* when 100 ms passed since the last update or more than 50 characters are
\* waiting (due), a goroutine is started with the answer as it is now.
RenderReceive(res, due) ==
  /\ render.pc = "streaming"
  /\ render.received < MaxRenderTokens
  /\ IF ~Contains(render.answer, res)
     THEN LET answer == IF render.answer # <<>>
                        THEN render.answer \o <<"\n">> \o res
                        ELSE res
          IN render' = [render EXCEPT
                          !.received = @ + 1,
                          !.answer = answer,
                          !.updating = IF due THEN @ \cup {answer} ELSE @]
     ELSE render' = [render EXCEPT !.received = @ + 1]

\* The goroutine of lines 436-440 runs updateTextCard(ctx, content, cardId):
\* streamUpdateText takes the next sequence number and sends the PUT with
\* the content the goroutine was started with.  When the token for the
\* request cannot be had (tokenOk = FALSE) it returns before that.
RenderUpdate(content, tokenOk) ==
  /\ content \in render.updating
  /\ IF tokenOk
     THEN LET seq == getNextSequence(render.counter)
          IN render' = [render EXCEPT
                          !.updating = @ \ {content},
                          !.counter = seq,
                          !.puts = Append(@, [seq |-> seq, content |-> content])]
     ELSE render' = [render EXCEPT !.updating = @ \ {content}]

\* Execute, lines 414-418: the channel is closed; Execute leaves the loop.
\* The goroutines it started go on.
RenderClosed ==
  /\ render.pc = "streaming"
  /\ render' = [render EXCEPT !.pc = "returned"]

InitRender == render = IdleRender

RenderStep ==
  \/ \E res \in RenderTokens, due \in BOOLEAN : RenderReceive(res, due)
  \/ \E content \in render.updating, tokenOk \in BOOLEAN :
       RenderUpdate(content, tokenOk)
  \/ RenderClosed

-----------------------------------------------------------------------------
(* GetMessages and the maps of the messages: services/sessionCache.go.     *)
(* A Message holds its Metadata as a Go map, i.e. by reference.  The copy  *)
(* GetMessages makes of a message shares the map of the stored message     *)
(* unless that map is nil (NoMeta), in which case the copy gets a new one. *)

readerVars == <<reader>>

IdleReader ==
  [pc |-> "idle", sid |-> "", stored |-> <<>>, before |-> <<>>,
   returned |-> <<>>, edits |-> 0]

\* The histories SetMessages is given: the user message as Execute builds
\* it (part_007, lines 398-405) followed by the reply handleCompletion
\* appends (lines 522-525); a message whose map has no session_id; a message
\* without a map.
ReaderHistories ==
  { <<MsgM("user", CharA, [k \in {"session_id", "user_id"} |->
                              IF k = "session_id" THEN "s1" ELSE "u1"]),
      Msg("assistant", CharsBB)>>,
    <<MsgM("user", CharA, [k \in {"user_id"} |-> "u1"])>>,
    <<Msg("user", CharA)>> }

\* The message with Metadata[key] = value written into its map.
WriteMetadata(m, key, value) ==
  [m EXCEPT !.Metadata = [k \in DOMAIN m.Metadata \cup {key} |->
                            IF k = key THEN value ELSE m.Metadata[k]]]

\* SetMessages, lines 241 and 256: the slice is stored as given.
ReaderStore(sid, msgs) ==
  /\ reader.pc = "idle"
  /\ reader' = [IdleReader EXCEPT !.pc = "stored", !.sid = sid, !.stored = msgs]

\* GetMessages, lines 161-184.  messages[i] = msg copies the struct, not the
\* map: the write of session_id at line 180 goes into the stored message's
\* map whenever that map is not nil.
ReaderGet ==
  /\ reader.pc = "stored"
  /\ LET S == [cache |-> [s \in {reader.sid} |-> [Messages |-> reader.stored]]]
     IN reader' = [reader EXCEPT
          !.pc = "returned",
          !.before = reader.stored,
          !.returned = GetMessages(S, reader.sid),
          !.stored = [i \in 1..Len(reader.stored) |->
                        IF reader.stored[i].Metadata = NoMeta
                        THEN reader.stored[i]
                        ELSE WriteMetadata(reader.stored[i], "session_id", reader.sid)]]

\* The caller writes Metadata[key] = value in message i of what it got; the
\* map is the stored message's unless GetMessages made it.
ReaderEdit(i, key, value) ==
  /\ reader.pc = "returned"
  /\ reader.edits < MaxEdits
  /\ i \in 1..Len(reader.returned)
  /\ reader' = [reader EXCEPT
       !.edits = @ + 1,
       !.returned[i] = WriteMetadata(@, key, value),
       !.stored[i] = IF reader.before[i].Metadata = NoMeta THEN @
                     ELSE WriteMetadata(@, key, value)]

\* The caller drops what it got.
ReaderDone ==
  /\ reader.pc = "returned"
  /\ reader' = IdleReader

InitReader == reader = IdleReader

ReaderStep ==
  \/ \E sid \in SessionIds, msgs \in ReaderHistories : ReaderStore(sid, msgs)
  \/ ReaderGet
  \/ \E i \in 1..2, key \in {"session_id", "note"}, value \in {"s2", "x"} :
       ReaderEdit(i, key, value)
  \/ ReaderDone

-----------------------------------------------------------------------------
(* The card update with its retries: MessageHandler.Execute and            *)
(* MessageHandler.updateTextCard (handlers, part_007 lines 35-136).        *)
(* Waits are counted in units of 100 ms.                                   *)

updVars == <<upd>>

\* updateTextCard, line 114: maxRetries := 3
maxRetries == 3

IdleUpd ==
  [pc |-> "consuming", consumed |-> 0, i |-> 0, attempts |-> 0, waits |-> <<>>,
   ctxDone |-> FALSE, cancelledAt |-> -1, result |-> "", logged |-> 0,
   endedBy |-> ""]

\* Mutant of RetryWait: every wait is 100 ms.
RetryWait_Constant(i) == 1

\* updateTextCard, line 130: time.After(time.Duration(i+1) * 100 * time.Millisecond)
RetryWait(i) == i + 1

\* Execute, lines 62-64: a message is received from processedStream and
\* updateTextCard is called with the answer so far; its loop starts at i = 0.
UpdStart ==
  /\ upd.pc = "consuming"
  /\ upd.consumed < MaxUpdates
  /\ upd' = [upd EXCEPT !.pc = "attempt", !.consumed = @ + 1, !.i = 0,
                        !.attempts = 0, !.waits = <<>>, !.cancelledAt = -1,
                        !.result = ""]

\* updateTextCard, lines 115-135, one round: UpdateCard succeeds and the
\* call returns nil; or it fails and, with rounds left, the select of the
\* wait is entered, else the loop is over and the call returns the error.
\* Back in Execute (lines 64-66) an error is logged and the loop goes on.
UpdAttempt(ok) ==
  /\ upd.pc = "attempt"
  /\ upd.ctxDone => ~ok
  /\ IF ok
     THEN upd' = [upd EXCEPT !.pc = "consuming", !.attempts = @ + 1,
                            !.result = "ok"]
     ELSE IF upd.i < maxRetries - 1
     THEN upd' = [upd EXCEPT !.pc = "wait", !.attempts = @ + 1]
     ELSE upd' = [upd EXCEPT !.pc = "consuming", !.attempts = @ + 1,
                            !.i = @ + 1, !.result = "failed after attempts",
                            !.logged = @ + 1]

\* updateTextCard, lines 130-132: the timer of the wait fires first.
UpdWaited ==
  /\ upd.pc = "wait"
  /\ ~upd.ctxDone
  /\ upd' = [upd EXCEPT !.pc = "attempt", !.i = @ + 1,
                        !.waits = Append(@, RetryWait(upd.i))]

\* updateTextCard, lines 128-129: ctx.Done() is ready in the select of the
\* wait; the call returns "context cancelled while retrying card update",
\* which Execute logs.
UpdCancelled ==
  /\ upd.pc = "wait"
  /\ upd.ctxDone
  /\ upd' = [upd EXCEPT !.pc = "consuming", !.cancelledAt = upd.attempts,
                        !.result = "context cancelled", !.logged = @ + 1]

\* The context of the request is cancelled.
UpdCtxDone ==
  /\ ~upd.ctxDone
  /\ upd.pc # "returned"
  /\ upd' = [upd EXCEPT !.ctxDone = TRUE]

\* Execute, lines 62 and 69-83: processedStream is closed; the loop ends and
\* Execute goes on to the final update.
UpdStreamClosed ==
  /\ upd.pc = "consuming"
  /\ upd' = [upd EXCEPT !.pc = "returned", !.endedBy = "stream closed"]

InitUpd == upd = IdleUpd

UpdStep ==
  \/ UpdStart
  \/ \E ok \in BOOLEAN : UpdAttempt(ok)
  \/ UpdWaited
  \/ UpdCancelled
  \/ UpdCtxDone
  \/ UpdStreamClosed

-----------------------------------------------------------------------------
(* The processed-message check under concurrent deliveries:                *)
(* CommonMessageAction.Execute (handlers/event_common_action.go) and       *)
(* messageCacheImpl (part_019).  Each delivery runs in a goroutine of its  *)
(* own; IfProcessed and TagProcessed are two calls on a sync.Map.          *)

dedupVars == <<msgProcessed, delivery>>

Deliveries == {"d1", "d2", "d3"}

IdleDelivery == [pc |-> "idle", mid |-> ""]

\* Execute, lines 22-24: IfProcessed(msgId); a msgProcessed message id ends the
\* chain (return false).
DedupCheck(d, mid) ==
  /\ delivery[d].pc = "idle"
  /\ delivery' = [delivery EXCEPT ![d] =
                    [pc |-> IF IfProcessed(msgProcessed, mid) THEN "dropped"
                            ELSE "checked",
                     mid |-> mid]]
  /\ UNCHANGED msgProcessed

\* Execute, lines 25-26: TagProcessed(msgId); return true, the chain goes on.
DedupTag(d) ==
  /\ delivery[d].pc = "checked"
  /\ msgProcessed' = TagProcessed(msgProcessed, delivery[d].mid)
  /\ delivery' = [delivery EXCEPT ![d].pc = "passed"]

InitDedup ==
  /\ msgProcessed = {}
  /\ delivery = [d \in Deliveries |-> IdleDelivery]

DedupStep ==
  \/ \E d \in Deliveries, mid \in {"m1", "m2"} : DedupCheck(d, mid)
  \/ \E d \in Deliveries : DedupTag(d)

-----------------------------------------------------------------------------
(* Specifications.                                                         *)

vars == <<sessVars, turnVars, poolVars, streamVars, tokenVars, watchVars,
         buildVars,
         chanVars,
         shareVars,
         renderVars,
         readerVars,
         updVars,
         dedupVars>>

Init ==
  /\ InitSession /\ InitTurn /\ InitPool /\ InitStream /\ InitToken
  /\ InitWatch /\ InitBuild /\ InitChan /\ InitShare /\ InitRender
  /\ InitReader /\ InitUpd /\ InitDedup

NextSession ==
  SessionStep /\ UNCHANGED <<turnVars, poolVars, streamVars, tokenVars,
                             watchVars, buildVars, chanVars, shareVars, renderVars, readerVars, updVars, dedupVars>>

SpecSession == Init /\ [][NextSession]_vars

NextTurn == TurnStep /\ UNCHANGED <<poolVars, streamVars, tokenVars,
                                    watchVars, buildVars, chanVars, shareVars, renderVars, readerVars, updVars, dedupVars>>

SpecTurn == Init /\ [][NextTurn]_vars

NextPool ==
  PoolStep /\ UNCHANGED <<sessVars, turnVars, streamVars, tokenVars,
                          watchVars, buildVars, chanVars, shareVars, renderVars, readerVars, updVars, dedupVars>>

SpecPool == Init /\ [][NextPool]_vars

NextStream ==
  StreamStep /\ UNCHANGED <<sessVars, turnVars, poolVars, tokenVars,
                            watchVars, buildVars, chanVars, shareVars, renderVars, readerVars, updVars, dedupVars>>

SpecStream == Init /\ [][NextStream]_vars

NextToken ==
  TokenStep /\ UNCHANGED <<sessVars, turnVars, poolVars, streamVars,
                           watchVars, buildVars, chanVars, shareVars, renderVars, readerVars, updVars, dedupVars>>

SpecToken == Init /\ [][NextToken]_vars

NextWatch ==
  WatchStep /\ UNCHANGED <<sessVars, turnVars, poolVars, streamVars,
                           tokenVars, buildVars, chanVars, shareVars, renderVars, readerVars, updVars, dedupVars>>

SpecWatch == Init /\ [][NextWatch]_vars

NextBuild ==
  BuildStep /\ UNCHANGED <<sessVars, turnVars, poolVars, streamVars,
                           tokenVars, watchVars, chanVars, shareVars, renderVars, readerVars, updVars, dedupVars>>

SpecBuild == Init /\ [][NextBuild]_vars

NextChan ==
  ChanStep /\ UNCHANGED <<sessVars, turnVars, poolVars, streamVars,
                          tokenVars, watchVars, buildVars, shareVars, renderVars, readerVars, updVars, dedupVars>>

SpecChan == Init /\ [][NextChan]_vars

NextShare ==
  ShareStep /\ UNCHANGED <<sessVars, turnVars, poolVars, streamVars,
                           tokenVars, watchVars, buildVars, chanVars, renderVars, readerVars, updVars, dedupVars>>

SpecShare == Init /\ [][NextShare]_vars

NextRender ==
  RenderStep /\ UNCHANGED <<sessVars, turnVars, poolVars, streamVars,
                            tokenVars, watchVars, buildVars, chanVars, shareVars, readerVars, updVars, dedupVars>>

SpecRender == Init /\ [][NextRender]_vars

NextReader ==
  ReaderStep /\ UNCHANGED <<sessVars, turnVars, poolVars, streamVars,
                            tokenVars, watchVars, buildVars, chanVars, shareVars, renderVars, updVars, dedupVars>>

SpecReader == Init /\ [][NextReader]_vars

NextUpd ==
  UpdStep /\ UNCHANGED <<sessVars, turnVars, poolVars, streamVars, tokenVars,
                         watchVars, buildVars, chanVars, shareVars, renderVars, readerVars, dedupVars>>

SpecUpd == Init /\ [][NextUpd]_vars

NextDedup ==
  DedupStep /\ UNCHANGED <<sessVars, turnVars, poolVars, streamVars,
                           tokenVars, watchVars, buildVars, chanVars, shareVars, renderVars, readerVars, updVars>>

SpecDedup == Init /\ [][NextDedup]_vars

-----------------------------------------------------------------------------
(* Properties of the session cache (SpecSession).                          *)

\* C2 (as stated): every (user_id, inbound_msg_id) pair is accepted by
\* SetMessages at most once, also after a Clear of its session.
C2_AcceptedAtMostOnce == timesAccepted <= 1

\* C2 (amended): a SetMessages call carrying a pair succeeds only while the
\* pair is not in userMessageIndex and leaves the pair in the index; an
\* entry leaves the index only in a step that removes from the cache a
\* session whose (UserId, MessageId) is that pair, which is what Clear does
\* and ClearUserSessions, CleanExpiredSessions and TTL expiry do not.
C2_DedupWhileIndexed ==
  [][ /\ timesAccepted' > timesAccepted =>
           /\ TrackedPair \notin DOMAIN userMessageIndex
           /\ TrackedPair \in DOMAIN userMessageIndex'
      /\ \A p \in DOMAIN userMessageIndex \ DOMAIN userMessageIndex' :
           \E s \in DOMAIN cache \ DOMAIN cache' :
             <<cache[s].UserId, cache[s].MessageId>> = p
    ]_vars

\* The tracked pair was cleared with its session and accepted a second time.
C2_Witness == timesAccepted = 2 /\ TrackedPair \in DOMAIN userMessageIndex

\* C3: totalMemoryUsed equals the sum of Size over the sessions in the
\* session map, after every operation and after TTL expiry.
C3_MemoryIsSumOfSizes ==
  totalMemoryUsed = SumOver(DOMAIN cache, [s \in DOMAIN cache |-> cache[s].Size])

\* C4: every user owns at most MaxSessionsPerUser sessions in the cache.
C4_PerUserCap ==
  \A u \in Users : Cardinality(OwnedSessions(SessState, u)) <= MaxSessionsPerUser

\* A user is at the limit and a SetMessages call of that user for a further
\* session id was made.
C4_Witness ==
  /\ stuckCall.capNew
  /\ \E u \in Users :
       /\ Cardinality(OwnedSessions(SessState, u)) = MaxSessionsPerUser
       /\ UserAtCap(userSessionCount[u])

\* C10: when a user owns MaxSessionsPerUser sessions, SetMessages of that user
\* for a new session id returns success after evicting that user's session
\* with the oldest UpdatedAt, and the user then owns MaxSessionsPerUser.
C10_EvictsOldestAndAccepts ==
  \A c \in SetMessagesCalls :
    LET o == SetMessagesOutcome(SessState, c[1], c[2], c[4], "card", c[3],
                                "", "", now, c[5])
    IN (/\ sessionMu = "free"
        /\ CapNew(SessState, c[1], c[2])
        /\ ~isDuplicateMessageUnsafe(userMessageIndex, c[2], c[3]))
       => /\ o.result = "ok"
          /\ c[1] \in DOMAIN o.state.cache
          /\ Cardinality(OwnedSessions(o.state, c[2])) = MaxSessionsPerUser
          /\ \E e \in OldestUserSessions(SessState, c[2]) :
               e \notin DOMAIN o.state.cache

\* C33: when a user owns MaxSessionsPerUser sessions, SetMessages of that
\* user for a session id that is in the cache does not enter the per-user
\* eviction and leaves every session in the cache.
C33_NoEvictionForExistingSession ==
  \A c \in SetMessagesCalls :
    LET o == SetMessagesOutcome(SessState, c[1], c[2], c[4], "card", c[3],
                                "", "", now, c[5])
    IN (/\ sessionMu = "free"
        /\ Live(SessState, c[1])
        /\ Cardinality(OwnedSessions(SessState, c[2])) >= MaxSessionsPerUser)
       => /\ o.cause # "cleanOldestUserSession"
          /\ DOMAIN cache \subseteq DOMAIN o.state.cache


\* C11: a SetMessages call that would push totalMemoryUsed over MemoryLimit
\* returns, with success or with "memory limit exceeded", and leaves
\* totalMemoryUsed at most MemoryLimit.
C11_MemoryPressureCallReturns ==
  \A c \in SetMessagesCalls :
    LET o == SetMessagesOutcome(SessState, c[1], c[2], c[4], "card", c[3],
                                "", "", now, c[5])
    IN (/\ sessionMu = "free"
        /\ ~isDuplicateMessageUnsafe(userMessageIndex, c[2], c[3])
        /\ ~(UserAtCap(userSessionCount[c[2]])
             /\ OldestUserSessions(SessState, c[2]) # {})
        /\ totalMemoryUsed + calculateSessionSize(c[4]) > MemoryLimit)
       => /\ o.result \in {"ok", "memory limit exceeded"}
          /\ o.state.totalMemoryUsed <= MemoryLimit

\* C34: SetMessages checks the memory limit against the net change in size:
\* a call that replaces the history of a session in the cache, and with
\* which totalMemoryUsed less the old size plus the new size stays within
\* MemoryLimit, succeeds, without forced cleanup.
C34_MemoryCheckIsNet ==
  \A c \in SetMessagesCalls :
    LET o == SetMessagesOutcome(SessState, c[1], c[2], c[4], "card", c[3],
                                "", "", now, c[5])
    IN (/\ sessionMu = "free"
        /\ ~isDuplicateMessageUnsafe(userMessageIndex, c[2], c[3])
        /\ ~(UserAtCap(userSessionCount[c[2]])
             /\ OldestUserSessions(SessState, c[2]) # {})
        /\ Live(SessState, c[1])
        /\ totalMemoryUsed - cache[c[1]].Size + calculateSessionSize(c[4])
             <= MemoryLimit)
       => /\ o.result = "ok"
          /\ o.state.totalMemoryUsed
               = totalMemoryUsed - cache[c[1]].Size + calculateSessionSize(c[4])


\* C35: totalSessions is the number of sessions in the cache and
\* userSessionCount[u] the number of sessions u owns, and neither counter is
\* negative, also for sessions SetMode or SetPicResolution created and Clear
\* removed.
C35_CountersMatchSessions ==
  /\ totalSessions = Cardinality(DOMAIN cache)
  /\ totalSessions >= 0
  /\ \A u \in DOMAIN userSessionCount :
       /\ userSessionCount[u] = Cardinality(OwnedSessions(SessState, u))
       /\ userSessionCount[u] >= 0



\* C24: when a SetMessages call on a session succeeds, GetMessages on that
\* session in the state it leaves returns the messages of the call, same
\* roles and contents in the same order, with session_id set in each
\* message's metadata and the metadata otherwise as given.
C24_SetThenGet ==
  [][\A c \in SetMessagesCalls :
       LET o == SetMessagesOutcome(SessState, c[1], c[2], c[4], "card", c[3],
                                   "", "", now, c[5])
           got == GetMessages(SessState, c[1])'
       IN (/\ <<c[2], c[3]>> \notin DOMAIN userMessageIndex
           /\ <<c[2], c[3]>> \in DOMAIN userMessageIndex'
           /\ o.result = "ok"
           /\ SetMessages(c[1], c[2], c[4], "card", c[3], "", "", c[5]))
          => /\ Len(got) = Len(c[4])
             /\ \A i \in 1..Len(c[4]) :
                  /\ got[i].Role = c[4][i].Role
                  /\ got[i].Content = c[4][i].Content
                  /\ DOMAIN got[i].Metadata =
                       DOMAIN c[4][i].Metadata \cup {"session_id"}
                  /\ got[i].Metadata["session_id"] = c[1]
                  /\ \A k \in DOMAIN c[4][i].Metadata \ {"session_id"} :
                       got[i].Metadata[k] = c[4][i].Metadata[k]]_vars

\* A session holds the two messages of an accepted call and GetMessages
\* returns both with the session id.
C24_Witness ==
  \E sid \in DOMAIN cache :
    /\ Len(cache[sid].Messages) = 2
    /\ Len(GetMessages(SessState, sid)) = 2
    /\ \A i \in 1..2 :
         /\ GetMessages(SessState, sid)[i].Metadata["session_id"] = sid
         /\ GetMessages(SessState, sid)[i].Content = cache[sid].Messages[i].Content


\* C25: the totalSessions counter never exceeds MaxTotalSessions (10 000).
C25_TotalSessionsBounded == totalSessions <= MaxTotalSessions

\* The counter is at the limit and a SetMessages call for a further session
\* has come up against it.
C25_Witness ==
  /\ totalSessions = MaxTotalSessions
  /\ stuckCall.op = "SetMessages"
  /\ stuckCall.cause = "forceCleanup"


\* C26: every entry of userMessageIndex refers to a session that is in the
\* session map: no entry outlives the session it points to.
C26_IndexRefersToLiveSession ==
  \A p \in DOMAIN userMessageIndex :
    /\ ~userMessageIndex[p].detached
    /\ userMessageIndex[p].sid \in DOMAIN cache

-----------------------------------------------------------------------------
(* Properties of the orchestrator (SpecTurn).                              *)

\* C1: at any time at most one turn per session id is past the single-flight
\* gate; a concurrent Execute call for the same session id is rejected.
C1_SingleFlight ==
  \A s \in SessionIds :
    Cardinality({t \in Turns : turn[t].pc \in PastGate /\ turn[t].sid = s}) <= 1

\* One turn is past the gate and a concurrent call for its session id was
\* rejected.
C1_Witness ==
  \E t, u \in Turns :
    /\ turn[t].pc \in PastGate
    /\ turn[u].result = "rejected"
    /\ turn[u].sid = turn[t].sid

\* C7: the sequence numbers of the PUTs of a turn are strictly increasing in
\* the order the turn issued them, and no value is handed out twice, also
\* while other turns run.
C7_SequencesIncrease ==
  /\ \A t \in Turns : \A i, j \in 1..Len(turn[t].puts) :
       i < j => turn[t].puts[i].seq < turn[t].puts[j].seq
  /\ \A t, u \in Turns : \A i \in 1..Len(turn[t].puts) :
       \A j \in 1..Len(turn[u].puts) :
         t # u => turn[t].puts[i].seq # turn[u].puts[j].seq

\* Two turns issued PUTs in turn: one of a turn lies between two of another.
C7_Witness ==
  \E t, u \in Turns :
    /\ t # u
    /\ Len(turn[t].puts) >= 2
    /\ Len(turn[u].puts) >= 1
    /\ turn[t].puts[1].seq < turn[u].puts[1].seq
    /\ turn[u].puts[1].seq < turn[t].puts[2].seq

\* C9: when the stream of a first message (no prior state) ends with a
\* non-empty answer, the orchestrator has PUT the full answer, closed
\* streaming mode and called SetMessages exactly once, and the stored
\* history is the prior history, the user message and the assistant message
\* with the full answer.
C9_CleanEndPersists ==
  \A t \in Turns :
    LET T == turn[t]
    IN (/\ T.pc = "returning"
        /\ T.fresh
        /\ T.result \in {"completed", "session info not found"})
       => /\ \E i \in 1..Len(T.puts) : T.puts[i].content = T.answer
          /\ T.closed = 1
          /\ T.setCalls = 1
          /\ T.sid \in DOMAIN cache
          /\ cache[T.sid].Messages =
               T.prior \o <<UserMessage(T.sid, T.uid, Question),
                            Msg("assistant", T.answer)>>

\* C15: a turn that has sent its card and has left the loop of Execute has
\* issued a PUT with a final text for that card, whatever the way out.
C15_FinalCardOnEveryExit ==
  \A t \in Turns :
    (turn[t].card /\ turn[t].pc \in {"returning", "done"})
      => \E i \in 1..Len(turn[t].puts) : turn[t].puts[i].final

-----------------------------------------------------------------------------


C27_AcceptedTurnReturns ==
  \A sid \in activeSessions :
    \E t \in Turns : /\ turn[t].sid = sid
                     /\ turn[t].pc \in PastGate \ {"blocked"}

(* Properties of the loop of Execute (SpecWatch).                          *)

\* C16: Execute never waits longer than NoContentTimeout (10 s) since the
\* last token; a return on the no-content timer comes after that long a
\* silence, writes the final text for it and does not persist the turn; when
\* the silence has lasted that long and neither the stream has closed nor
\* another timer is due, that is the way Execute returns; and a call whose
\* stream carried only pings returns that way.
C16_NoContentTimeout ==
  /\ watch.pc = "streaming" => watch.quiet <= NoContentTimeout
  /\ (watch.pc = "returned" /\ watch.reason = "no content timeout")
       => /\ watch.quiet = NoContentTimeout
          /\ watch.finalText = FinalText("no content timeout")
          /\ ~watch.persisted
  /\ (/\ watch.pc = "returned"
      /\ watch.quiet = NoContentTimeout
      /\ watch.adapter # "closed"
      /\ watch.streamTimeout > 0
      /\ watch.ctxLeft > 0)
       => watch.reason = "no content timeout"
  /\ (watch.pc = "returned" /\ watch.kinds = {"ping"})
       => watch.reason = "no content timeout"

\* C28: when the adapter has returned an error after the stream started and
\* Execute has returned for that reason (no timer was the cause), the card
\* got an error text and the turn did not go on to be persisted, also when
\* tokens had been received.
C28_UpstreamErrorEndsTurn ==
  (/\ watch.pc = "returned"
   /\ "error" \in watch.kinds
   /\ watch.reason \notin {"no content timeout", "stream timeout",
                           "context done"})
    => /\ ~watch.persisted
       /\ watch.finalText \in {FinalText("empty answer"),
                               FinalText("upstream error")}

\* C17: when the stream has closed with the answer still empty and Execute
\* has returned, it did so by writing the final text for an empty reply,
\* unless a timer was due at that moment, and in no case was the turn
\* persisted; a stream that consists of [DONE] alone, arriving before the
\* no-content timer is due, ends this way.
C17_EmptyAnswerNotPersisted ==
  /\ (watch.pc = "returned" /\ watch.reason = "empty answer")
       => /\ watch.finalText = FinalText("empty answer")
          /\ ~watch.answered
          /\ ~watch.persisted
  /\ (watch.pc = "returned" /\ watch.adapter = "closed" /\ ~watch.answered)
       => /\ ~watch.persisted
          /\ \/ watch.reason = "empty answer"
             \/ watch.reason = "no content timeout" /\ watch.noContentTimeout = 0
             \/ watch.reason = "stream timeout" /\ watch.streamTimeout = 0
             \/ watch.reason = "context done" /\ watch.ctxLeft = 0
  /\ (/\ watch.pc = "returned"
      /\ watch.kinds = {"[DONE]"}
      /\ watch.quiet < NoContentTimeout)
       => watch.reason = "empty answer"

\* The stream consisted of [DONE] alone and Execute wrote the text for an
\* empty reply.
C17_Witness ==
  /\ watch.pc = "returned"
  /\ watch.kinds = {"[DONE]"}
  /\ watch.reason = "empty answer"
  /\ watch.finalText = FinalText("empty answer")

\* C39: a call the single-flight gate rejects changes nothing but its own
\* outcome: it has no card and no PUT, made no upstream request and no
\* SetMessages call, the session cache and the sequence counter are as
\* before, the other turns are where they were, and the session id of the
\* running turn is still in activeSessions.
C39_RejectedCallHasNoEffect ==
  [][\A t \in Turns :
       (turn[t].pc = "idle" /\ turn'[t].result = "rejected")
         => /\ turn'[t].pc = "done"
            /\ ~turn'[t].card
            /\ turn'[t].puts = <<>>
            /\ turn'[t].aiMessages = <<>>
            /\ turn'[t].setCalls = 0
            /\ sessVars' = sessVars
            /\ sequenceCounter' = sequenceCounter
            /\ activeSessions' = activeSessions
            /\ turn'[t].sid \in activeSessions'
            /\ \A u \in Turns \ {t} : turn'[u] = turn[u]]_vars

\* A call was rejected while the turn of its session was streaming, with its
\* card, and that turn is still registered.
C39_Witness ==
  \E t, u \in Turns :
    /\ turn[u].pc = "done"
    /\ turn[u].result = "rejected"
    /\ turn[t].sid = turn[u].sid
    /\ turn[t].pc = "streaming"
    /\ turn[t].card
    /\ turn[t].sid \in activeSessions


-----------------------------------------------------------------------------
(* Properties of the card pool (SpecPool).                                 *)

\* C5: after any card-pool operation, under any interleaving of GetCard, the
\* refill goroutines and the midnight rebuild, at most PoolSize cards are
\* queued.
C5_PoolWithinCapacity == Len(cards) <= PoolSize


\* C20: a GetCard call that finds the pool empty returns, with the id of the
\* card it created or with the error of the exhausted retries; it never
\* stays blocked.
C20_EmptyPoolGetReturns ==
  /\ lastGet.result \in {"none", "ok", "failed to create card"}
  /\ lastGet.result = "ok" => lastGet.card \in 1..nextCardId


\* C21: once Stop has returned the pool creates no further card: no step of
\* GetCard, of a refill goroutine or of fillPool adds to the cards created.
C21_NoCreationAfterStop ==
  [][~isRunning => nextCardId' = nextCardId]_vars

-----------------------------------------------------------------------------
(* Properties of the construction of the card pool (SpecBuild).            *)

\* C22: construction makes at most MaxRetries (3) attempts for a card, and
\* once all attempts for a card have failed the failure has ended the
\* construction: no further attempt follows it.
C22_FailureEndsConstruction ==
  /\ build.tries <= MaxRetries
  /\ build.failures > 0 => (build.tries = MaxRetries /\ build.pc # "create")

-----------------------------------------------------------------------------
(* Properties of the streaming adapter (SpecStream).                       *)

\* C6: for a single StreamChat invocation, the concatenation of the tokens
\* it emitted on the channel is a prefix of the concatenation, in reception
\* order, of the deduplicated message and agent_message contents it received.
C6_EmittedIsPrefixOfReceived ==
  IsPrefix(Flatten(call.emitted), Flatten(call.received))

\* C12: once a response of the call contained "Conversation Not Exists", the
\* rejected conversation id is no longer the one cached for the user, the
\* request has been reissued once with an empty conversation id, and when the
\* call then returns success the cached id is the one the retry returned.
C12_StaleConversationDropped ==
  call.cne =>
    /\ conversations # call.rejected
    /\ call.reqConv = 0
    /\ call.requests <= 2 + call.retry
    /\ (call.pc = "idle" /\ call.result = "ok") => conversations = call.n

\* C31: what a StreamChat invocation emits on its channel is content it
\* received itself: the message text it emitted (the chunks other than
\* thoughts, which are sent unbuffered) is no longer than the text it
\* received and holds no fragment it did not receive, so that nothing an
\* earlier invocation left in the emit buffer is delivered to it.
C31_NoContentOfAnotherCall ==
  LET chunks == SelectSeq(call.emitted, LAMBDA c : c # <<"t">>)
  IN /\ Len(Flatten(chunks)) <= Len(Flatten(call.received))
     /\ \A j \in 1..Len(chunks) :
          \A k \in 1..Len(chunks[j]) :
            \E i \in 1..Len(call.received) :
              call.received[i][1] = chunks[j][k]


\* C13 (as stated): StreamChat issues a request again only after an error of
\* a temporary kind, at most StreamMaxRetries times, so that an error of a
\* permanent kind ends the call without another request, and once ctx is
\* done a backoff is left by returning, without another request.
C13_RetriesOnlyTemporary ==
  /\ [](/\ call.reissuedAfter \subseteq
             {"ErrConnectionFailed", "ErrTimeout", "ErrRateLimited"}
        /\ call.retry <= StreamMaxRetries
        /\ call.requests <= 1 + call.retry)
  /\ [][(call.pc = "backoff" /\ call.ctxDone /\ call' # call)
          => (call'.pc = "idle" /\ call'.requests = call.requests)]_vars

\* C13 (amended): as stated, except that an error containing "Conversation
\* Not Exists", which is of a permanent kind, is followed by one more
\* request, with an empty conversation id, outside the retry count.
C13_RetriesTemporaryOrConversationLost ==
  /\ [](/\ call.reissuedAfter \subseteq
             {"ErrConnectionFailed", "ErrTimeout", "ErrRateLimited",
              "Conversation Not Exists"}
        /\ call.retry <= StreamMaxRetries
        /\ call.requests <= 1 + call.retry + (IF call.cne THEN 1 ELSE 0)
        /\ ("Conversation Not Exists" \in call.reissuedAfter) = call.cne)
  /\ [][(call.pc = "backoff" /\ call.ctxDone /\ call' # call)
          => (call'.pc = "idle" /\ call'.requests = call.requests)]_vars

\* A temporary error was retried, the retry failed with a permanent error and
\* the call returned it.
C13_Witness ==
  /\ call.pc = "idle"
  /\ call.retry = StreamMaxRetries
  /\ call.reissuedAfter # {}
  /\ call.requests = 1 + StreamMaxRetries
  /\ call.result = "error"

\* C14: when StreamChat has returned success the emit buffer is empty, every
\* fragment the call received and did not drop as a duplicate having been
\* sent on the channel.
C14_BufferFlushedAtEnd ==
  (call.pc = "idle" /\ call.result = "ok")
    => /\ buffer = <<>>
       /\ \A i \in 1..Len(call.received) :
            \E j \in 1..Len(call.emitted) :
              \E k \in 1..Len(call.emitted[j]) :
                call.emitted[j][k] = call.received[i][1]


\* C30: what an invocation of StreamChat passes on is what it received with
\* the fragments left out that it had received before in that invocation,
\* whatever another invocation on the same provider does meanwhile.
C30_SuppressionPerCall ==
  \A i \in Invocations :
    invocation[i].passed = KeepNew(invocation[i].received, {})

-----------------------------------------------------------------------------
(* Properties of the token channels (SpecChan).                            *)

\* C23: each token channel of a turn is closed at most once and only by the
\* goroutine that sends on it, and nothing is sent on it once it is closed.
C23_ChannelDiscipline ==
  /\ Len(pipe.responseClosers) <= 1
  /\ \A i \in DOMAIN pipe.responseClosers : pipe.responseClosers[i] = "adapter"
  /\ Len(pipe.processedClosers) <= 1
  /\ \A i \in DOMAIN pipe.processedClosers : pipe.processedClosers[i] = "relay"
  /\ ~pipe.sentAfterClose
  /\ Len(hm.closers) <= 1
  /\ \A i \in DOMAIN hm.closers : hm.closers[i] = "sender"
  /\ ~hm.sentAfterClose

\* C29: once Execute has returned, no goroutine of the turn is left at a
\* send on a full channel that has no reader: the adapter and the relay can
\* always go on to their return.
C29_NoSenderLeftBlocked ==
  pipe.pc = "returned" =>
    /\ ~(pipe.relay = "sending" /\ ~HasRoom(pipe.processedStream))
    /\ ~(pipe.adapter = "sending" /\ ~HasRoom(pipe.responseStream)
         /\ pipe.relay \in {"sending", "none"})

-----------------------------------------------------------------------------
(* Properties of the token cache (SpecToken).                              *)

\* C8 (as stated): at most one refresh request is in flight, and a caller
\* that obtains the write lock after a successful refresh returns the
\* refreshed token without issuing I/O.
C8_OneRefreshAndWaitersReuse ==
  /\ Cardinality({c \in Callers : caller[c].pc = "io"}) <= 1
  /\ \A c \in Callers :
       (caller[c].waited /\ caller[c].pc \in {"io", "done"})
       => /\ ~caller[c].didIO
          /\ caller[c].pc = "done"
          /\ caller[c].result = caller[c].cacheAtLock

\* C8 (amended): at most one refresh request is in flight, and a caller that
\* obtains the write lock after a successful refresh returns the refreshed
\* token without issuing I/O when that token is still fresh
\* (now < tokenExpiry - 5 min) at its re-check.
C8_OneRefreshAndFreshReuse ==
  /\ Cardinality({c \in Callers : caller[c].pc = "io"}) <= 1
  /\ \A c \in Callers :
       (caller[c].waited /\ caller[c].freshAtLock
        /\ caller[c].pc \in {"io", "done"})
       => /\ ~caller[c].didIO
          /\ caller[c].pc = "done"
          /\ caller[c].result = caller[c].cacheAtLock
          /\ caller[c].result > 0

\* A caller waited for the lock through another caller's refresh and
\* returned its token without a request of its own.
C8_Witness ==
  \E c \in Callers :
    /\ caller[c].pc = "done"
    /\ caller[c].waited
    /\ caller[c].freshAtLock
    /\ ~caller[c].didIO
    /\ caller[c].result = tokenCache


\* C19: when a refresh fails, the call returns the cached token if there is
\* one and the time is before its expiry, and the error otherwise; the
\* cached token and its expiry are left as they were.
C19_FailedRefreshFallsBack ==
  [][\A c \in Callers :
       (caller[c].pc = "io" /\ caller'[c].pc = "done" /\ caller'[c].failed) =>
         /\ tokenCache' = tokenCache
         /\ tokenExpiry' = tokenExpiry
         /\ caller'[c].result =
              IF tokenCache # 0 /\ tokenNow < tokenExpiry
              THEN tokenCache ELSE -1]_vars

\* A refresh failed inside the refresh margin of a token that had not
\* expired, and the call returned that token.
C19_Witness ==
  \E c \in Callers : /\ caller[c].pc = "done"
                     /\ caller[c].failed
                     /\ caller[c].result = tokenCache
                     /\ tokenCache # 0
                     /\ tokenExpiry - RefreshMargin <= tokenNow
                     /\ tokenNow < tokenExpiry

\* C38 (as stated): a refresh at time t that reports expiry e stores
\* tokenExpiry = t + max(e, DefaultExpire) - ExpireMargin, and a call is
\* answered from the cache, without a request, exactly when there is a
\* token and now < tokenExpiry - RefreshMargin.
C38_ExpiryAtLeastDefault ==
  [][\A c \in Callers :
       /\ \A e \in ReportedExpires :
            RefreshSucceeds(c, e)
              => tokenExpiry' = tokenNow - ExpireMargin
                                + (IF e > DefaultExpire THEN e ELSE DefaultExpire)
       /\ FastPath(c)
            => ((caller'[c].pc = "done" /\ caller'[c].result = tokenCache)
                 <=> (tokenCache # 0 /\ tokenNow < tokenExpiry - RefreshMargin))
       /\ AcquireLock(c)
            => (caller'[c].didIO
                 <=> ~(tokenCache # 0 /\ tokenNow < tokenExpiry - RefreshMargin))
    ]_vars

\* C38 (amended): as stated, except that the expiry stored is
\* t + e - ExpireMargin for every reported e other than 0, also when e is
\* below DefaultExpire, and t + DefaultExpire - ExpireMargin when e is 0.
C38_ExpiryAsReported ==
  [][\A c \in Callers :
       /\ \A e \in ReportedExpires :
            RefreshSucceeds(c, e)
              => tokenExpiry' = tokenNow - ExpireMargin
                                + (IF e = 0 THEN DefaultExpire ELSE e)
       /\ FastPath(c)
            => ((caller'[c].pc = "done" /\ caller'[c].result = tokenCache)
                 <=> (tokenCache # 0 /\ tokenNow < tokenExpiry - RefreshMargin))
       /\ AcquireLock(c)
            => (caller'[c].didIO
                 <=> ~(tokenCache # 0 /\ tokenNow < tokenExpiry - RefreshMargin))
    ]_vars

\* After a second refresh a later call, inside the window of the token it
\* stored, got that token from the cache on the fast path.
C38_Witness ==
  /\ tokenCache >= 2
  /\ tokenNow < tokenExpiry - RefreshMargin
  /\ \E c \in Callers :
       /\ caller[c].pc = "done"
       /\ ~caller[c].didIO
       /\ ~caller[c].waited
       /\ caller[c].result = tokenCache


-----------------------------------------------------------------------------
(* Properties of the card updates (SpecRender).                            *)

\* C32: the streamed PUTs of a turn, taken in the order of their sequence
\* numbers, carry texts that form a growing chain: the text of a PUT has the
\* text of every PUT with a smaller sequence number as a prefix.
C32_PutsGrowInSequenceOrder ==
  \A i, j \in 1..Len(render.puts) :
    render.puts[i].seq < render.puts[j].seq
      => IsPrefix(render.puts[i].content, render.puts[j].content)

-----------------------------------------------------------------------------
(* Properties of GetMessages and the message maps (SpecReader).            *)

\* C36: GetMessages leaves the stored history as it was, the metadata of
\* every stored message included, and what the caller later changes in the
\* messages it got leaves the stored history as it was.
C36_GetMessagesReadOnly ==
  reader.pc = "returned" => reader.stored = reader.before

-----------------------------------------------------------------------------
(* Properties of the card update with its retries (SpecUpd).               *)

-----------------------------------------------------------------------------
(* Properties of the processed-message check (SpecDedup).                  *)

\* C40: of the deliveries of one inbound message id, concurrent ones
\* included, at most one passes the processed-message check and goes on
\* down the chain of actions.
C40_AtMostOnePasses ==
  \A mid \in {"m1", "m2"} :
    Cardinality({d \in Deliveries :
                   delivery[d].pc = "passed" /\ delivery[d].mid = mid}) <= 1

=============================================================================
